---- MODULE Spec2Model ----
(***************************************************************************)
(* VIP Afterparty RGS: the /spin orchestrator (backend/app/main.py), the   *)
(* Redis store it uses (backend/app/redis_service.py) and the spin engine  *)
(* (backend/app/logic/engine.py).                                          *)
(*                                                                         *)
(* Store: one idempotency record per clientRequestId (idem:{id}), one lock *)
(* key per player (lock:player:{id}, SET NX EX) and one state key per      *)
(* player (state:player:{id}).  Every request is a coroutine; one action   *)
(* of the model is one Redis command taking effect followed by the         *)
(* synchronous code that runs until the next command is awaited.           *)
(*                                                                         *)
(* Units: money multiples (win / bet) are kept in hundredths (x100), bets  *)
(* in cents, wins in 1/100 cent, so that the engine's arithmetic is exact. *)
(* An absent Redis value (None) is the empty sequence, a present one a     *)
(* one-element sequence; an absent lock is token 0.                        *)
(***************************************************************************)
EXTENDS Integers, Sequences, FiniteSets, TLC

\* ---------------------------------------------------------------- bounds
\* number of /spin requests issued in one behaviour
NumReq == 2
\* lock TTL in clock ticks (lock_ttl_seconds abstracted to a tick count)
LockTtlTicks == 1

\* ------------------------------------------------------ program constants
MAX_WIN_TOTAL_X == 25000
FREE_SPINS_WIN_MULTIPLIER == 11
AFTERPARTY_METER_MAX == 100
AFTERPARTY_RAGE_SPINS == 3
AFTERPARTY_RAGE_MULTIPLIER == 2
AFTERPARTY_METER_INC_ON_ANY_WIN == 3
AFTERPARTY_METER_INC_ON_WILD_PRESENT == 5
AFTERPARTY_METER_INC_ON_TWO_SCATTERS == 8
AFTERPARTY_RAGE_COOLDOWN_SPINS == 15
BOOST_TRIGGER_SMALLWINS == 4
EXPLOSIVE_TRIGGER_WIN_X == 5
BOOST_SPINS == 3
EXPLOSIVE_SPINS == 1
EVENT_MAX_RATE_PER_100_SPINS == 18
BOOST_MAX_RATE_PER_100_SPINS == 8
EXPLOSIVE_MAX_RATE_PER_100_SPINS == 10
WIN_TIER_BIG == 20
WIN_TIER_MEGA == 200
WIN_TIER_EPIC == 1000

\* settings.allowed_bets, in cents
allowed_bets == {10, 20, 50, 100, 200, 500, 1000}
enable_buy_feature == TRUE
enable_hype_mode_ante_bet == TRUE

\* ------------------------------------------------------------ engine model
\* GameState() with its defaults
GameState ==
  [mode |-> "BASE", free_spins_remaining |-> 0, heat_level |-> 0,
   bonus_is_bought |-> FALSE,
   afterparty_meter |-> 0, rage_active |-> FALSE, rage_spins_left |-> 0,
   rage_deferred |-> FALSE, deadspins_streak |-> 0, smallwins_streak |-> 0,
   spins_in_window |-> 0, events_in_window |-> 0, boost_in_window |-> 0,
   rage_in_window |-> 0, explosive_in_window |-> 0,
   rage_cooldown_remaining |-> 0]

Min(a, b) == IF a < b THEN a ELSE b

\* The local name `state` of engine.spin.  After a BUY_FEATURE entry it is
\* rebound to result.next_state (c.aliased), so every later read of `state`
\* sees what has been written to next_state so far; otherwise it is the
\* object passed in, which the spin never writes.
State(c) == IF c.aliased THEN c.ns ELSE c.state0

\* next_state bound to the object passed in, without a copy: every write
\* to next_state is a write to the caller's object
model_copy_by_reference(c) ==
  [c EXCEPT !.ns = c.state0, !.shared = TRUE, !.aliased = TRUE]

\* engine.spin: result.next_state = state.model_copy(deep=True), a new
\* object (c.ns) with the fields of the one passed in (c.state0)
model_copy(c) == [c EXCEPT !.ns = c.state0, !.shared = FALSE]

\* the object the caller passed in, as the call leaves it
Argument(c) == IF c.shared THEN c.ns ELSE c.state0

\* the BUY_FEATURE entry without the test of state.mode: a BUY_FEATURE spin
\* starts a bought bonus in FREE_SPINS too
BuyFeatureEntry_any_mode(c) ==
  IF c.mode = "BUY_FEATURE"
    THEN [c EXCEPT !.ns = [@ EXCEPT !.mode = "FREE_SPINS",
                                    !.free_spins_remaining = 10,
                                    !.heat_level = 1,
                                    !.bonus_is_bought = TRUE],
                   !.events = @ \o << [type |-> "enterFreeSpins", count |-> 10,
                                       reason |-> "buy_feature",
                                       bonusVariant |-> "vip_buy"],
                                      [type |-> "heatUpdate", level |-> 1] >>,
                   !.aliased = TRUE]
    ELSE c

\* engine.spin, BUY_FEATURE entry; c.ns is result.next_state, c.events the
\* event list
BuyFeatureEntry(c) ==
  IF c.mode = "BUY_FEATURE" /\ c.state0.mode = "BASE"
    THEN [c EXCEPT !.ns = [@ EXCEPT !.mode = "FREE_SPINS",
                                    !.free_spins_remaining = 10,
                                    !.heat_level = 1,
                                    !.bonus_is_bought = TRUE],
                   !.events = @ \o << [type |-> "enterFreeSpins", count |-> 10,
                                       reason |-> "buy_feature",
                                       bonusVariant |-> "vip_buy"],
                                      [type |-> "heatUpdate", level |-> 1] >>,
                   !.aliased = TRUE]
    ELSE c

\* engine.spin steps 4-5: reveal and spotlightWilds events
Reveal(c) ==
  [c EXCEPT !.events = @ \o << [type |-> "reveal"] >>
                         \o (IF c.draw.spotlight > 0
                               THEN << [type |-> "spotlightWilds",
                                        count |-> c.draw.spotlight] >>
                               ELSE << >>)]

\* engine.spin step 7: the multiplier applied to the base win
Multiplier(st) ==
  (IF st.mode = "FREE_SPINS" /\ st.bonus_is_bought
     THEN FREE_SPINS_WIN_MULTIPLIER ELSE 1)
  * (IF st.rage_active /\ st.rage_spins_left > 0
       THEN AFTERPARTY_RAGE_MULTIPLIER ELSE 1)

\* steps 7-9 without step 8: the win is never clamped
WinAndCap_no_cap(c) ==
  LET rawX == c.draw.base_win_x * Multiplier(State(c))
  IN [c EXCEPT !.raw_win_x = rawX,
               !.total_win_x = rawX,
               !.total_win = rawX * c.bet,
               !.events = @ \o [i \in 1..c.draw.win_lines |->
                                  [type |-> "winLine", lineId |-> i - 1]]]

\* engine.spin steps 7-9: multipliers, the MAX_WIN_TOTAL_X cap, winLine events
WinAndCap(c) ==
  LET rawX   == c.draw.base_win_x * Multiplier(State(c))
      capped == rawX > MAX_WIN_TOTAL_X * 100
      winX   == IF capped THEN MAX_WIN_TOTAL_X * 100 ELSE rawX
  IN [c EXCEPT !.raw_win_x = rawX,
               !.is_capped = capped,
               !.cap_reason = IF capped
                                THEN (IF State(c).mode = "BASE" THEN "max_win_base"
                                                                ELSE "max_win_bonus")
                                ELSE "null",
               !.total_win_x = winX,
               !.total_win = winX * c.bet,
               !.events = @ \o [i \in 1..c.draw.win_lines |->
                                  [type |-> "winLine", lineId |-> i - 1]]]

\* engine.spin step 10: afterparty meter and rage trigger
AfterpartyMeter(c) ==
  IF ~(State(c).mode = "BASE" /\ ~State(c).rage_active) THEN c
  ELSE
    LET meter_before == c.ns.afterparty_meter
        m1 == IF c.total_win > 0
                THEN Min(meter_before + AFTERPARTY_METER_INC_ON_ANY_WIN,
                         AFTERPARTY_METER_MAX)
                ELSE meter_before
        m2 == IF c.draw.wild_count > 0
                THEN Min(m1 + AFTERPARTY_METER_INC_ON_WILD_PRESENT, AFTERPARTY_METER_MAX)
                ELSE m1
        m3 == IF c.draw.scatter_count = 2
                THEN Min(m2 + AFTERPARTY_METER_INC_ON_TWO_SCATTERS, AFTERPARTY_METER_MAX)
                ELSE m2
        meter_triggered == m3 >= AFTERPARTY_METER_MAX
                           /\ State(c).rage_cooldown_remaining = 0
        meter == IF meter_triggered THEN 0 ELSE m3
    IN [c EXCEPT !.ns = IF meter_triggered
                          THEN [@ EXCEPT !.afterparty_meter = 0,
                                         !.rage_active = TRUE,
                                         !.rage_spins_left = AFTERPARTY_RAGE_SPINS]
                          ELSE [@ EXCEPT !.afterparty_meter = m3],
                 !.events = @ \o (IF meter # meter_before \/ meter_triggered
                                    THEN << [type |-> "afterpartyMeterUpdate",
                                             level |-> meter,
                                             triggered |-> meter_triggered] >>
                                    ELSE << >>)
                              \o (IF meter_triggered
                                    THEN << [type |-> "eventStart",
                                             eventType |-> "afterpartyRage",
                                             reason |-> "meter_full",
                                             durationSpins |-> AFTERPARTY_RAGE_SPINS,
                                             multiplier |-> AFTERPARTY_RAGE_MULTIPLIER] >>
                                    ELSE << >>)]

\* engine.spin: streaks
Streaks(c) ==
  IF State(c).mode # "BASE" THEN c
  ELSE IF c.total_win_x = 0
    THEN [c EXCEPT !.ns = [@ EXCEPT !.deadspins_streak = State(c).deadspins_streak + 1,
                                    !.smallwins_streak = 0]]
  ELSE IF c.total_win_x <= 200
    THEN [c EXCEPT !.ns = [@ EXCEPT !.smallwins_streak = State(c).smallwins_streak + 1,
                                    !.deadspins_streak = 0]]
  ELSE [c EXCEPT !.ns = [@ EXCEPT !.deadspins_streak = 0, !.smallwins_streak = 0]]

\* engine.spin: cooldown tracking
Cooldown(c) ==
  IF State(c).rage_cooldown_remaining > 0
    THEN [c EXCEPT !.ns = [@ EXCEPT !.rage_cooldown_remaining =
                                       State(c).rage_cooldown_remaining - 1]]
    ELSE c

\* step 11 with the end of rage one spin late (rage_spins_left < 0)
RageCountdown_late(c) ==
  IF ~State(c).rage_active THEN c
  ELSE
    LET left == State(c).rage_spins_left - 1
    IN IF left < 0
         THEN [c EXCEPT !.ns = [@ EXCEPT !.rage_spins_left = 0,
                                         !.rage_active = FALSE,
                                         !.afterparty_meter = 0,
                                         !.rage_cooldown_remaining =
                                            AFTERPARTY_RAGE_COOLDOWN_SPINS],
                        !.events = @ \o << [type |-> "eventEnd",
                                            eventType |-> "afterpartyRage"] >>]
         ELSE [c EXCEPT !.ns = [@ EXCEPT !.rage_spins_left = left]]

\* step 11 with an end of rage that starts no cooldown
RageCountdown_no_cooldown(c) ==
  IF ~State(c).rage_active THEN c
  ELSE
    LET left == State(c).rage_spins_left - 1
    IN IF left <= 0
         THEN [c EXCEPT !.ns = [@ EXCEPT !.rage_spins_left = left,
                                         !.rage_active = FALSE,
                                         !.afterparty_meter = 0],
                        !.events = @ \o << [type |-> "eventEnd",
                                            eventType |-> "afterpartyRage"] >>]
         ELSE [c EXCEPT !.ns = [@ EXCEPT !.rage_spins_left = left]]

\* engine.spin step 11: rage countdown and end
RageCountdown(c) ==
  IF ~State(c).rage_active THEN c
  ELSE
    LET left == State(c).rage_spins_left - 1
    IN IF left <= 0
         THEN [c EXCEPT !.ns = [@ EXCEPT !.rage_spins_left = left,
                                         !.rage_active = FALSE,
                                         !.afterparty_meter = 0,
                                         !.rage_cooldown_remaining =
                                            AFTERPARTY_RAGE_COOLDOWN_SPINS],
                        !.events = @ \o << [type |-> "eventEnd",
                                            eventType |-> "afterpartyRage"] >>]
         ELSE [c EXCEPT !.ns = [@ EXCEPT !.rage_spins_left = left]]

\* engine.spin step 12: the window counter and the rate-limit check
Window(c) ==
  [c EXCEPT !.ns = [@ EXCEPT !.spins_in_window = (State(c).spins_in_window + 1) % 100],
            !.can_trigger_event =
               State(c).events_in_window < EVENT_MAX_RATE_PER_100_SPINS]

\* the boost trigger without the cap of boosts per window
BoostTrigger_uncapped(c) ==
  IF /\ c.can_trigger_event
     /\ ~State(c).rage_active
     /\ State(c).mode = "BASE"
     /\ c.ns.smallwins_streak >= BOOST_TRIGGER_SMALLWINS
    THEN [c EXCEPT !.ns = [@ EXCEPT !.smallwins_streak = 0,
                                    !.boost_in_window = State(c).boost_in_window + 1,
                                    !.events_in_window = State(c).events_in_window + 1],
                   !.events = @ \o << [type |-> "eventStart", eventType |-> "boost",
                                       reason |-> "smallwins",
                                       durationSpins |-> BOOST_SPINS] >>]
    ELSE c

\* engine.spin step 12: boost trigger
BoostTrigger(c) ==
  IF /\ c.can_trigger_event
     /\ ~State(c).rage_active
     /\ State(c).mode = "BASE"
     /\ c.ns.smallwins_streak >= BOOST_TRIGGER_SMALLWINS
     /\ State(c).boost_in_window < BOOST_MAX_RATE_PER_100_SPINS
    THEN [c EXCEPT !.ns = [@ EXCEPT !.smallwins_streak = 0,
                                    !.boost_in_window = State(c).boost_in_window + 1,
                                    !.events_in_window = State(c).events_in_window + 1],
                   !.events = @ \o << [type |-> "eventStart", eventType |-> "boost",
                                       reason |-> "smallwins",
                                       durationSpins |-> BOOST_SPINS] >>]
    ELSE c

\* the explosive trigger without its step of events_in_window
ExplosiveTrigger_uncounted(c) ==
  IF /\ c.can_trigger_event
     /\ State(c).mode = "BASE"
     /\ c.total_win_x >= EXPLOSIVE_TRIGGER_WIN_X * 100
     /\ State(c).explosive_in_window < EXPLOSIVE_MAX_RATE_PER_100_SPINS
    THEN [c EXCEPT !.ns = [@ EXCEPT !.explosive_in_window =
                                       State(c).explosive_in_window + 1],
                   !.events = @ \o << [type |-> "eventStart", eventType |-> "explosive",
                                       reason |-> "win_threshold",
                                       durationSpins |-> EXPLOSIVE_SPINS] >>]
    ELSE c

\* engine.spin step 12: explosive trigger
ExplosiveTrigger(c) ==
  IF /\ c.can_trigger_event
     /\ State(c).mode = "BASE"
     /\ c.total_win_x >= EXPLOSIVE_TRIGGER_WIN_X * 100
     /\ State(c).explosive_in_window < EXPLOSIVE_MAX_RATE_PER_100_SPINS
    THEN [c EXCEPT !.ns = [@ EXCEPT !.explosive_in_window =
                                       State(c).explosive_in_window + 1,
                                    !.events_in_window = State(c).events_in_window + 1],
                   !.events = @ \o << [type |-> "eventStart", eventType |-> "explosive",
                                       reason |-> "win_threshold",
                                       durationSpins |-> EXPLOSIVE_SPINS] >>]
    ELSE c

\* step 13 without the test of the mode: three scatters start a bonus on a
\* free spin too
FreeSpinsTrigger_any_mode(c) ==
  IF c.draw.scatter_count >= 3
    THEN LET free_spins_count == 10 + (c.draw.scatter_count - 3) * 2
         IN [c EXCEPT !.ns = [@ EXCEPT !.mode = "FREE_SPINS",
                                       !.free_spins_remaining = free_spins_count,
                                       !.heat_level = 1],
                      !.events = @ \o << [type |-> "enterFreeSpins",
                                          count |-> free_spins_count,
                                          reason |-> "scatter",
                                          bonusVariant |-> "standard"],
                                         [type |-> "heatUpdate", level |-> 1] >>]
    ELSE c

\* engine.spin step 13: free spins trigger (3+ scatters in BASE)
FreeSpinsTrigger(c) ==
  IF c.draw.scatter_count >= 3 /\ State(c).mode = "BASE"
    THEN LET free_spins_count == 10 + (c.draw.scatter_count - 3) * 2
         IN [c EXCEPT !.ns = [@ EXCEPT !.mode = "FREE_SPINS",
                                       !.free_spins_remaining = free_spins_count,
                                       !.heat_level = 1],
                      !.events = @ \o << [type |-> "enterFreeSpins",
                                          count |-> free_spins_count,
                                          reason |-> "scatter",
                                          bonusVariant |-> "standard"],
                                         [type |-> "heatUpdate", level |-> 1] >>]
    ELSE c

\* step 14 without the decrement of free_spins_remaining
FreeSpinConsume_no_decrement(c) ==
  IF State(c).mode = "FREE_SPINS"
    THEN [c EXCEPT !.in_free_spins = TRUE]
    ELSE c

\* engine.spin step 14: one free spin is spent (the decrement; the heat
\* update and the bonus end follow in that order)
FreeSpinConsume(c) ==
  IF State(c).mode = "FREE_SPINS"
    THEN [c EXCEPT !.ns = [@ EXCEPT !.free_spins_remaining =
                                       State(c).free_spins_remaining - 1],
                   !.in_free_spins = TRUE]
    ELSE c

\* step 14 without the heat_level < 10 test
FreeSpinHeat_unbounded(c) ==
  IF c.in_free_spins /\ c.total_win > 0
    THEN LET level == State(c).heat_level + 1
         IN [c EXCEPT !.ns = [@ EXCEPT !.heat_level = level],
                      !.events = @ \o << [type |-> "heatUpdate", level |-> level] >>]
    ELSE c

\* engine.spin step 14: heat update on a winning free spin
FreeSpinHeat(c) ==
  IF c.in_free_spins /\ c.total_win > 0 /\ State(c).heat_level < 10
    THEN LET level == State(c).heat_level + 1
         IN [c EXCEPT !.ns = [@ EXCEPT !.heat_level = level],
                      !.events = @ \o << [type |-> "heatUpdate", level |-> level] >>]
    ELSE c

\* step 14 with a bonus end that leaves heat_level and bonus_is_bought
BonusEnd_mode_only(c) ==
  IF c.in_free_spins /\ c.ns.free_spins_remaining <= 0
    THEN [c EXCEPT !.events = @ \o << [type |-> "bonusEnd", bonusType |-> "freespins",
                                        finalePath |-> "standard",
                                        totalWinX |-> c.total_win_x] >>,
                   !.ns = [@ EXCEPT !.mode = "BASE"]]
    ELSE c

\* engine.spin step 14: bonus end when no free spin is left
BonusEnd(c) ==
  IF c.in_free_spins /\ c.ns.free_spins_remaining <= 0
    THEN LET finale_path == IF c.ns.heat_level >= 10 THEN "upgrade"
                            ELSE IF c.total_win_x >= 2000 THEN "multiplier"
                            ELSE "standard"
             bonus_end_event ==
               IF State(c).bonus_is_bought
                 THEN [type |-> "bonusEnd", bonusType |-> "freespins",
                       finalePath |-> finale_path, totalWinX |-> c.total_win_x,
                       bonusVariant |-> "vip_buy",
                       bonusMultiplierApplied |-> FREE_SPINS_WIN_MULTIPLIER,
                       \* total_win_x / FREE_SPINS_WIN_MULTIPLIER, as a fraction
                       totalWinXPreMultiplier |->
                         << c.total_win_x, FREE_SPINS_WIN_MULTIPLIER >>]
                 ELSE [type |-> "bonusEnd", bonusType |-> "freespins",
                       finalePath |-> finale_path, totalWinX |-> c.total_win_x]
         IN [c EXCEPT !.events = @ \o << bonus_end_event >>,
                      !.ns = [@ EXCEPT !.mode = "BASE",
                                       !.heat_level = 0,
                                       !.bonus_is_bought = FALSE]]
    ELSE c

\* engine.spin step 15
WinTier(winX100) ==
  IF winX100 >= WIN_TIER_EPIC * 100 THEN "epic"
  ELSE IF winX100 >= WIN_TIER_MEGA * 100 THEN "mega"
  ELSE IF winX100 >= WIN_TIER_BIG * 100 THEN "big"
  ELSE "none"

\* engine.spin step 15: result.win_tier and the winTier event
WinTierEvent(c) ==
  LET win_tier == WinTier(c.total_win_x)
  IN [c EXCEPT !.win_tier = win_tier,
               !.events = @ \o (IF win_tier # "none"
                                  THEN << [type |-> "winTier", tier |-> win_tier,
                                           winX |-> c.total_win_x] >>
                                  ELSE << >>)]

\* engine.spin.  state0 is the GameState passed in, bet the bet in cents,
\* draw the outcome of the RNG-driven part of the spin (steps 1-6): the
\* number of scatters and wilds on the grid after spotlight wilds, the base
\* win as a multiple of the bet (x100), the number of winLine events and of
\* spotlight positions.  The statements of the method run in order, each on
\* the value the previous one left.  Returns the locals of the finished
\* call.
EngineRun(state0, bet, mode, hype_mode, draw) ==
  LET c0 == [state0 |-> state0, bet |-> bet, mode |-> mode, hype_mode |-> hype_mode,
             draw |-> draw, ns |-> state0, shared |-> FALSE, aliased |-> FALSE,
             events |-> << >>,
             raw_win_x |-> 0, total_win_x |-> 0, total_win |-> 0,
             is_capped |-> FALSE, cap_reason |-> "null",
             can_trigger_event |-> FALSE, in_free_spins |-> FALSE,
             win_tier |-> "none"]
      done ==
        { WinTierEvent(c) : c \in
        { BonusEnd(c) : c \in
        { FreeSpinHeat(c) : c \in
        { FreeSpinConsume(c) : c \in
        { FreeSpinsTrigger(c) : c \in
        { ExplosiveTrigger(c) : c \in
        { BoostTrigger(c) : c \in
        { Window(c) : c \in
        { RageCountdown(c) : c \in
        { Cooldown(c) : c \in
        { Streaks(c) : c \in
        { AfterpartyMeter(c) : c \in
        { WinAndCap(c) : c \in
        { Reveal(c) : c \in
        { BuyFeatureEntry(c) : c \in
        { model_copy(c0) } } } } } } } } } } } } } } } }
  IN CHOOSE c \in done : TRUE

\* the SpinResult a finished engine.spin returns
SpinResult(c) ==
  [base_win_x |-> c.draw.base_win_x, raw_win_x |-> c.raw_win_x,
   total_win |-> c.total_win, total_win_x |-> c.total_win_x,
   is_capped |-> c.is_capped, cap_reason |-> c.cap_reason,
   events |-> c.events, next_state |-> c.ns,
   scatter_count |-> c.draw.scatter_count, wild_count |-> c.draw.wild_count,
   win_tier |-> c.win_tier]

\* engine.spin as its callers see it
EngineSpin(state0, bet, mode, hype_mode, draw) ==
  CHOOSE result \in
    { SpinResult(c) : c \in {EngineRun(state0, bet, mode, hype_mode, draw)} } : TRUE

\* ------------------------------------------------------------ store model
Requests == 1..NumReq
\* X-Player-Id header values ("" is a missing or empty header)
PlayerHeaders == {"", "p1", "p2"}
Players == PlayerHeaders \ {""}
ClientRequestIds == {"c1", "c2"}
\* request payloads a client sends (betAmount in cents): a normal spin, and
\* one payload differing from it in each field; 300 is not an allowed bet
Payloads ==
  { [betAmount |-> 100, mode |-> "NORMAL", hypeMode |-> FALSE],
    [betAmount |-> 100, mode |-> "BUY_FEATURE", hypeMode |-> FALSE],
    [betAmount |-> 100, mode |-> "NORMAL", hypeMode |-> TRUE],
    [betAmount |-> 200, mode |-> "NORMAL", hypeMode |-> FALSE],
    [betAmount |-> 300, mode |-> "NORMAL", hypeMode |-> FALSE] }

\* RNG outcomes of one spin (engine steps 1-6) used by the server model:
\* a dead spin, and three scatters (scatter pay 2x, free spins trigger)
Draws ==
  { [scatter_count |-> 0, wild_count |-> 0, base_win_x |-> 0,
     win_lines |-> 0, spotlight |-> 0],
    [scatter_count |-> 3, wild_count |-> 0, base_win_x |-> 200,
     win_lines |-> 1, spotlight |-> 0] }

\* persisted state dicts a player can have when the behaviour starts:
\* none, a bought bonus with one spin left, a natural bonus with two left
StoredStates ==
  { << >>,
    << [mode |-> "FREE_SPINS", free_spins_remaining |-> 1, heat_level |-> 3,
        bonus_is_bought |-> TRUE, bonus_continuation_count |-> 8] >>,
    << [mode |-> "FREE_SPINS", free_spins_remaining |-> 2, heat_level |-> 1,
        bonus_is_bought |-> FALSE, bonus_continuation_count |-> 8] >> }

VARIABLES
  idem,             \* idem:{clientRequestId} -> << >> or <<[payload_hash, response]>>
  lock,             \* lock:player:{id} -> token, 0 when the key is absent
  lockTtl,          \* remaining TTL of lock:player:{id} in ticks, 0 when absent
  state,            \* state:player:{id} -> << >> or <<state dict>>
  req,              \* the locals and position of every /spin coroutine
  log,              \* history: the store commands each request has executed
  concurrent,       \* history: pairs of requests that were in flight together
  gs,               \* the GameState an engine session carries from spin to spin;
                    \* in a client session, the next_state of its latest fresh spin
  last,             \* << >> or <<the last engine call: its inputs and its SpinResult>>
  sess,             \* << >> or <<the last exchange of a sequential client session>>
  settings,         \* config.settings: the feature flags of the deployment
  telemetry_service \* telemetry.telemetry_service: its sink and _sink_errors

vars == <<idem, lock, lockTtl, state, req, log, concurrent, gs, last, sess,
          settings, telemetry_service>>

\* the variables of the engine session and of the client session, the
\* settings, which no handler writes, and the telemetry service, whose
\* logging sink never raises: the concurrent server model leaves them alone
aside == <<gs, last, sess, settings, telemetry_service>>

\* config.Settings(): the flags as deployed without APP_ environment
\* variables
Settings ==
  [enable_buy_feature |-> enable_buy_feature,
   enable_hype_mode_ante_bet |-> enable_hype_mode_ante_bet]

\* TelemetryService.__init__ with the sink given, "logging" for the default
\* LoggingTelemetrySink and "failing" for a sink that raises on every emit
TelemetryService(sink) == [sink |-> sink, sink_errors |-> 0]

\* the module-level settings and telemetry_service after import
Deployed ==
  /\ settings = Settings
  /\ telemetry_service = TelemetryService("logging")

\* errors.ERROR_HTTP_STATUS
ERROR_HTTP_STATUS(code) ==
  CASE code = "INVALID_REQUEST" -> 400
    [] code = "INVALID_BET" -> 400
    [] code = "FEATURE_DISABLED" -> 409
    [] code = "INSUFFICIENT_FUNDS" -> 402
    [] code = "ROUND_IN_PROGRESS" -> 409
    [] code = "IDEMPOTENCY_CONFLICT" -> 409
    [] code = "RATE_LIMIT_EXCEEDED" -> 429
    [] code = "MAINTENANCE" -> 503
    [] code = "INTERNAL_ERROR" -> 500
    [] code = "NOT_IMPLEMENTED" -> 501

\* errors.ERROR_RECOVERABLE
ERROR_RECOVERABLE(code) ==
  CASE code = "INVALID_REQUEST" -> FALSE
    [] code = "INVALID_BET" -> FALSE
    [] code = "FEATURE_DISABLED" -> FALSE
    [] code = "INSUFFICIENT_FUNDS" -> TRUE
    [] code = "ROUND_IN_PROGRESS" -> TRUE
    [] code = "IDEMPOTENCY_CONFLICT" -> FALSE
    [] code = "RATE_LIMIT_EXCEEDED" -> TRUE
    [] code = "MAINTENANCE" -> TRUE
    [] code = "INTERNAL_ERROR" -> TRUE
    [] code = "NOT_IMPLEMENTED" -> FALSE

\* validate_bet alone, without validate_features
validate_spin_request_bet_only(body) ==
  IF body.betAmount \notin allowed_bets THEN "INVALID_BET" ELSE ""

\* validators.validate_spin_request: "" when the request is valid
validate_spin_request(body) ==
  IF body.betAmount \notin allowed_bets THEN "INVALID_BET"
  ELSE IF body.mode = "BUY_FEATURE" /\ ~settings.enable_buy_feature
    THEN "FEATURE_DISABLED"
  ELSE IF body.hypeMode /\ ~settings.enable_hype_mode_ante_bet
    THEN "FEATURE_DISABLED"
  ELSE ""

\* main.spin step 2: the payload the idempotency hash is taken of
Payload(body) ==
  [betAmount |-> body.betAmount, mode |-> body.mode, hypeMode |-> body.hypeMode]

\* RedisService._payload_hash: the digest of the canonical JSON (keys
\* sorted: betAmount, hypeMode, mode), taken to be collision-free
_payload_hash(payload) == <<payload.betAmount, payload.hypeMode, payload.mode>>

\* check_idempotency without the record lookup: every request is a miss
check_idempotency_always_miss(cached, payload) == "miss"

\* check_idempotency without the payload-hash comparison
check_idempotency_no_hash(cached, payload) ==
  IF cached = << >> THEN "miss" ELSE "hit"

\* RedisService.check_idempotency on the stored value `cached`
check_idempotency(cached, payload) ==
  IF cached = << >> THEN "miss"
  ELSE IF cached[1].payload_hash # _payload_hash(payload) THEN "conflict"
  ELSE "hit"

\* RedisService.store_idempotency: the value SETEX writes
store_idempotency(payload, response) ==
  << [payload_hash |-> _payload_hash(payload), response |-> response] >>

\* acquire_player_lock with a plain SET (no NX)
acquire_ok_plain_set(lockValue) == TRUE

\* acquire_player_lock without EX: the key is written with no TTL
acquire_ttl_missing == 0 * LockTtlTicks

\* RedisService.acquire_player_lock: SET key token NX EX LOCK_TTL
acquire_ok(lockValue) == lockValue = 0

\* the EX argument of that SET
acquire_ttl == LockTtlTicks

\* release with a plain DEL instead of the compare-and-delete script
release_plain_del(lockValue, token) == 0

\* a release that never deletes the key
release_skipped(lockValue, token) == lockValue

\* RELEASE_LOCK_SCRIPT: the value of the lock key after EVAL
release_player_lock(lockValue, token) ==
  IF lockValue = token THEN 0 ELSE lockValue

\* release_player_lock's return value: the script's reply is 1
release_result(lockValue, token) == lockValue = token

\* the two writes in the opposite order: state first, idempotency second
after_state_first(pc) ==
  CASE pc = "load" -> "save"
    [] pc = "save" -> "store"
    [] pc = "store" -> "release"

\* the order of the awaited store commands inside the `async with` body of
\* main.spin: state GET (with the engine call), idempotency SETEX, state
\* SETEX/DEL, then the lock release
after(pc) ==
  CASE pc = "load" -> "store"
    [] pc = "store" -> "save"
    [] pc = "save" -> "release"

\* step 6 with the stored dict ignored: every spin starts from GameState()
LoadGameState_ignored(state_data) == GameState

\* main.spin step 6: GameState built from the stored dict
LoadGameState(state_data) ==
  IF state_data = << >> THEN GameState
  ELSE [GameState EXCEPT !.mode = state_data[1].mode,
                         !.free_spins_remaining = state_data[1].free_spins_remaining,
                         !.heat_level = state_data[1].heat_level,
                         !.bonus_is_bought = state_data[1].bonus_is_bought]

is_bonus_continuation(state_data) ==
  /\ state_data # << >>
  /\ state_data[1].mode = "FREE_SPINS"
  /\ state_data[1].free_spins_remaining > 0

bonus_continuation_count(state_data) ==
  IF is_bonus_continuation(state_data)
    THEN state_data[1].bonus_continuation_count + 1 ELSE 0

\* main.spin step 8: the protocol response
SpinResponse(round_id, result) ==
  [roundId |-> round_id,
   outcome |-> [totalWin |-> result.total_win, totalWinX |-> result.total_win_x,
                isCapped |-> result.is_capped, capReason |-> result.cap_reason],
   events |-> result.events,
   nextState |-> [mode |-> result.next_state.mode,
                  spinsRemaining |-> result.next_state.free_spins_remaining,
                  heatLevel |-> result.next_state.heat_level]]

\* step 10 without the clear_player_state branch: the state is always saved
SavedState_never_cleared(next_state, bcc) ==
  << [mode |-> next_state.mode,
      free_spins_remaining |-> next_state.free_spins_remaining,
      heat_level |-> next_state.heat_level,
      bonus_is_bought |-> next_state.bonus_is_bought,
      bonus_continuation_count |-> bcc] >>

\* main.spin step 10: the new value of the player's state key
SavedState(next_state, bcc) ==
  IF next_state.mode = "FREE_SPINS" /\ next_state.free_spins_remaining > 0
    THEN << [mode |-> next_state.mode,
             free_spins_remaining |-> next_state.free_spins_remaining,
             heat_level |-> next_state.heat_level,
             bonus_is_bought |-> next_state.bonus_is_bought,
             bonus_continuation_count |-> bcc] >>
    ELSE << >>

_get_telemetry_mode(body) ==
  IF body.mode = "BUY_FEATURE" THEN "buy"
  ELSE IF body.hypeMode THEN "hype" ELSE "base"

RECURSIVE _extract_bonus_variant(_)
_extract_bonus_variant(events) ==
  IF events = << >> THEN "null"
  ELSE IF Head(events).type = "enterFreeSpins"
    THEN (IF Head(events).bonusVariant = "vip_buy" THEN "vip_buy"
          ELSE IF Head(events).reason = "buy_feature" THEN "vip_buy"
          ELSE "standard")
  ELSE _extract_bonus_variant(Tail(events))

\* ----------------------------------------------------------------- state
NoBody == [clientRequestId |-> "", betAmount |-> 0, mode |-> "NORMAL", hypeMode |-> FALSE]

IdleReq ==
  [pc |-> "idle", player_id |-> "", body |-> NoBody, token |-> 0,
   state_data |-> << >>, result |-> << >>, response |-> << >>,
   error |-> "", status |-> 0, recoverable |-> FALSE, tele |-> << >>,
   retry |-> FALSE]

Init ==
  /\ idem = [c \in ClientRequestIds |-> << >>]
  /\ lock = [p \in Players |-> 0]
  /\ lockTtl = [p \in Players |-> 0]
  /\ \E st \in StoredStates : state = [p \in Players |-> IF p = "p1" THEN st ELSE << >>]
  /\ req = [r \in Requests |-> IdleReq]
  /\ log = [r \in Requests |-> << >>]
  /\ concurrent = {}
  /\ gs = GameState /\ last = << >> /\ sess = << >>
  /\ Deployed

\* positions between lock acquisition and the compare-and-delete release
LockScope == {"slow", "load", "store", "save", "release"}
InFlight(r) == req[r].pc \notin {"idle", "done", "crashed"}
InLockScope(r) == req[r].pc \in LockScope

\* the response the HTTP layer sends when the handler ends with `error`
\* (ErrorHandlerMiddleware) or returns `response`
Finish(r, response, error, tele) ==
  [req[r] EXCEPT !.pc = "done",
                 !.response = response,
                 !.error = error,
                 !.status = IF error = "" THEN 200 ELSE ERROR_HTTP_STATUS(error),
                 !.recoverable = IF error = "" THEN FALSE ELSE ERROR_RECOVERABLE(error),
                 !.tele = tele]

\* --------------------------------------------------------------- actions
\* POST /spin arrives: PlayerIdMiddleware, validate_spin_request, payload.
\* The fast-path idempotency GET is the first command awaited.
Start(r, player_id, body) ==
  /\ req[r].pc = "idle"
  /\ \A q \in Requests : q < r => req[q].pc # "idle"
  \* client request ids are interchangeable and so are players until one
  \* is used: the first request fixes the names p1 and c1
  /\ r = 1 => player_id # "p2" /\ body.clientRequestId = "c1"
  /\ LET error == IF player_id = "" THEN "INVALID_REQUEST"
                  ELSE validate_spin_request(body)
         arrived == [req[r] EXCEPT !.player_id = player_id, !.body = body]
     IN /\ req' = [req EXCEPT ![r] =
                     IF error # ""
                       THEN [arrived EXCEPT !.pc = "done", !.error = error,
                                            !.status = ERROR_HTTP_STATUS(error),
                                            !.recoverable = ERROR_RECOVERABLE(error)]
                       ELSE [arrived EXCEPT !.pc = "fast"]]
        /\ concurrent' = IF error # "" THEN concurrent
                         ELSE concurrent \cup {{r, o} : o \in {q \in Requests : InFlight(q)}}
  /\ UNCHANGED <<idem, lock, lockTtl, state, log, aside>>

\* step 3 with a spin_processed event emitted for a replay
FastCheck_emits_on_replay(r) ==
  /\ req[r].pc = "fast"
  /\ LET cached == idem[req[r].body.clientRequestId]
         found  == check_idempotency(cached, Payload(req[r].body))
     IN req' = [req EXCEPT ![r] =
                  CASE found = "hit" ->
                         Finish(r, << cached[1].response >>, "",
                                << [event |-> "spin_processed",
                                    round_id |-> cached[1].response.roundId] >>)
                    [] found = "conflict" -> Finish(r, << >>, "IDEMPOTENCY_CONFLICT", << >>)
                    [] OTHER -> [req[r] EXCEPT !.pc = "acquire"]]
  /\ log' = [log EXCEPT ![r] = Append(@, "idem_get")]
  /\ UNCHANGED <<idem, lock, lockTtl, state, concurrent, aside>>

\* main.spin step 3: check_idempotency outside the lock
FastCheck(r) ==
  /\ req[r].pc = "fast"
  /\ LET cached == idem[req[r].body.clientRequestId]
         found  == check_idempotency(cached, Payload(req[r].body))
     IN req' = [req EXCEPT ![r] =
                  CASE found = "hit" -> Finish(r, << cached[1].response >>, "", << >>)
                    [] found = "conflict" -> Finish(r, << >>, "IDEMPOTENCY_CONFLICT", << >>)
                    [] OTHER -> [req[r] EXCEPT !.pc = "acquire"]]
  /\ log' = [log EXCEPT ![r] = Append(@, "idem_get")]
  /\ UNCHANGED <<idem, lock, lockTtl, state, concurrent, aside>>

\* main.spin step 4: player_lock.__aenter__ (acquire_player_lock); on
\* failure ROUND_IN_PROGRESS is raised and spin_rejected is emitted
Acquire(r) ==
  /\ req[r].pc = "acquire"
  /\ LET p == req[r].player_id
     IN IF acquire_ok(lock[p])
          THEN /\ lock' = [lock EXCEPT ![p] = r]
               /\ lockTtl' = [lockTtl EXCEPT ![p] = acquire_ttl]
               /\ req' = [req EXCEPT ![r] = [@ EXCEPT !.pc = "slow", !.token = r]]
          ELSE /\ req' = [req EXCEPT ![r] =
                            Finish(r, << >>, "ROUND_IN_PROGRESS",
                                   << [event |-> "spin_rejected",
                                       reason |-> "ROUND_IN_PROGRESS"] >>)]
               /\ UNCHANGED <<lock, lockTtl>>
  /\ log' = [log EXCEPT ![r] = Append(@, "lock_setnx")]
  /\ UNCHANGED <<idem, state, concurrent, aside>>

\* main.spin step 5: check_idempotency under the lock; a hit returns and a
\* conflict raises out of the `async with` body
SlowCheck(r) ==
  /\ req[r].pc = "slow"
  /\ LET cached == idem[req[r].body.clientRequestId]
         found  == check_idempotency(cached, Payload(req[r].body))
     IN req' = [req EXCEPT ![r] =
                  CASE found = "hit" ->
                         [@ EXCEPT !.pc = "release", !.response = << cached[1].response >>]
                    [] found = "conflict" ->
                         [@ EXCEPT !.pc = "release", !.error = "IDEMPOTENCY_CONFLICT"]
                    [] OTHER -> [@ EXCEPT !.pc = "load"]]
  /\ log' = [log EXCEPT ![r] = Append(@, "idem_get")]
  /\ UNCHANGED <<idem, lock, lockTtl, state, concurrent, aside>>

\* main.spin steps 6-8: get_player_state, engine.spin, uuid4 round id,
\* response built; store_idempotency is awaited next
Load(r, draw) ==
  /\ req[r].pc = "load"
  /\ LET state_data == state[req[r].player_id]
         body   == req[r].body
         result == EngineSpin(LoadGameState(state_data), body.betAmount,
                              body.mode, body.hypeMode, draw)
     IN req' = [req EXCEPT ![r] =
                  [@ EXCEPT !.pc = after("load"),
                            !.state_data = state_data,
                            !.result = << result >>,
                            !.response = << SpinResponse(r, result) >>]]
  /\ log' = [log EXCEPT ![r] = Append(@, "state_get")]
  /\ UNCHANGED <<idem, lock, lockTtl, state, concurrent, aside>>

\* main.spin step 9: store_idempotency (unconditional SETEX)
StoreIdem(r) ==
  /\ req[r].pc = "store"
  /\ idem' = [idem EXCEPT ![req[r].body.clientRequestId] =
                store_idempotency(Payload(req[r].body), req[r].response[1])]
  /\ req' = [req EXCEPT ![r] = [@ EXCEPT !.pc = after("store")]]
  /\ log' = [log EXCEPT ![r] = Append(@, "idem_setex")]
  /\ UNCHANGED <<lock, lockTtl, state, concurrent, aside>>

\* main.spin steps 10-11: save_player_state or clear_player_state, then
\* emit_spin_processed and `return response_dict` (still inside the
\* `async with`: the release is awaited next)
Save(r) ==
  /\ req[r].pc = "save"
  /\ LET p      == req[r].player_id
         result == req[r].result[1]
         bcc    == bonus_continuation_count(req[r].state_data)
         saved  == SavedState(result.next_state, bcc)
     IN /\ state' = [state EXCEPT ![p] = saved]
        /\ log' = [log EXCEPT ![r] =
                     Append(@, IF saved = << >> THEN "state_del" ELSE "state_setex")]
        /\ req' = [req EXCEPT ![r] =
                     [@ EXCEPT !.pc = after("save"),
                               !.tele = << [event |-> "spin_processed",
                                            round_id |-> r,
                                            is_bonus_continuation |->
                                              is_bonus_continuation(req[r].state_data),
                                            bonus_continuation_count |-> bcc,
                                            mode |-> _get_telemetry_mode(req[r].body),
                                            bonus_variant |->
                                              _extract_bonus_variant(result.events)] >>]]
  /\ UNCHANGED <<idem, lock, lockTtl, concurrent, aside>>

\* player_lock's finally: release_player_lock with the request's token,
\* then the response (or the pending error) leaves the handler
Release(r) ==
  /\ req[r].pc = "release"
  /\ LET p     == req[r].player_id
         value == release_player_lock(lock[p], req[r].token)
     IN /\ lock' = [lock EXCEPT ![p] = value]
        /\ lockTtl' = [lockTtl EXCEPT ![p] = IF value = 0 THEN 0 ELSE @]
  /\ req' = [req EXCEPT ![r] =
               Finish(r, IF req[r].error = "" THEN req[r].response ELSE << >>,
                      req[r].error, req[r].tele)]
  /\ log' = [log EXCEPT ![r] =
               Append(@, IF release_result(lock[req[r].player_id], req[r].token)
                           THEN "lock_eval_1" ELSE "lock_eval_0")]
  /\ UNCHANGED <<idem, state, concurrent, aside>>

\* an exception other than GameError (or a cancellation) raised inside the
\* `async with` body at one of its awaits: the finally clause runs next and
\* ErrorHandlerMiddleware answers INTERNAL_ERROR
Raise(r) ==
  /\ req[r].pc \in {"slow", "load", "store", "save"}
  /\ req' = [req EXCEPT ![r] = [@ EXCEPT !.pc = "release", !.error = "INTERNAL_ERROR"]]
  /\ UNCHANGED <<idem, lock, lockTtl, state, log, concurrent, aside>>

\* the worker process dies while the request is inside the lock scope:
\* nothing more of the request runs, the finally clause included, and its
\* locals are gone
Crash(r) ==
  /\ InLockScope(r)
  /\ req' = [req EXCEPT ![r] =
               [IdleReq EXCEPT !.pc = "crashed", !.player_id = req[r].player_id,
                               !.body = req[r].body, !.token = req[r].token]]
  /\ UNCHANGED <<idem, lock, lockTtl, state, log, concurrent, aside>>

\* one tick of the Redis clock on lock:player:{p}; the key is removed when
\* its TTL reaches 0
Tick(p) ==
  /\ lockTtl[p] > 0
  /\ lockTtl' = [lockTtl EXCEPT ![p] = @ - 1]
  /\ lock' = [lock EXCEPT ![p] = IF lockTtl[p] = 1 THEN 0 ELSE @]
  /\ UNCHANGED <<idem, state, req, log, concurrent, aside>>

Bodies ==
  { [clientRequestId |-> c, betAmount |-> pl.betAmount, mode |-> pl.mode,
     hypeMode |-> pl.hypeMode] : c \in ClientRequestIds, pl \in Payloads }

Next ==
  \/ \E r \in Requests, h \in PlayerHeaders, b \in Bodies : Start(r, h, b)
  \/ \E r \in Requests : FastCheck(r)
  \/ \E r \in Requests : Acquire(r)
  \/ \E r \in Requests : SlowCheck(r)
  \/ \E r \in Requests, d \in Draws : Load(r, d)
  \/ \E r \in Requests : StoreIdem(r)
  \/ \E r \in Requests : Save(r)
  \/ \E r \in Requests : Release(r)
  \/ \E r \in Requests : Raise(r)
  \/ \E r \in Requests : Crash(r)
  \/ \E p \in Players : Tick(p)

Spec == Init /\ [][Next]_vars

\* The server while every worker stays up and every request leaves the lock
\* scope before the TTL of its lock elapses: no process dies, and no lock key
\* is removed by the Redis clock while a request holds it (a lock key exists
\* only while its request is in the lock scope, so the clock removes none).
SteadyNext ==
  \/ \E r \in Requests, h \in PlayerHeaders, b \in Bodies : Start(r, h, b)
  \/ \E r \in Requests : FastCheck(r)
  \/ \E r \in Requests : Acquire(r)
  \/ \E r \in Requests : SlowCheck(r)
  \/ \E r \in Requests, d \in Draws : Load(r, d)
  \/ \E r \in Requests : StoreIdem(r)
  \/ \E r \in Requests : Save(r)
  \/ \E r \in Requests : Release(r)
  \/ \E r \in Requests : Raise(r)

SteadySpec == Init /\ [][SteadyNext]_vars

\* Liveness is checked on the spins of one player sending the normal-spin
\* payload; the Redis clock keeps running, so the TTL of every lock key
\* elapses, and the event loop runs every coroutine that is ready.
LiveBodies == {b \in Bodies : Payload(b) = [betAmount |-> 100, mode |-> "NORMAL",
                                              hypeMode |-> FALSE]}

LiveNext ==
  \/ \E r \in Requests, b \in LiveBodies : Start(r, "p1", b)
  \/ \E r \in Requests : FastCheck(r)
  \/ \E r \in Requests : Acquire(r)
  \/ \E r \in Requests : SlowCheck(r)
  \/ \E r \in Requests, d \in Draws : Load(r, d)
  \/ \E r \in Requests : StoreIdem(r)
  \/ \E r \in Requests : Save(r)
  \/ \E r \in Requests : Release(r)
  \/ \E r \in Requests : Raise(r)
  \/ \E r \in Requests : Crash(r)
  \/ \E p \in Players : Tick(p)

FairSpec ==
  /\ Init /\ [][LiveNext]_vars
  /\ \A p \in Players : WF_vars(Tick(p))
  /\ \A r \in Requests :
       WF_vars(FastCheck(r) \/ Acquire(r) \/ SlowCheck(r) \/ StoreIdem(r)
               \/ Save(r) \/ Release(r) \/ \E d \in Draws : Load(r, d))

\* ---------------------------------------------------------- engine session
\* number of spins an engine session plays after its warm-up
MaxSpins == 3

\* the bet (cents), mode and hype flag of an engine call
NormalSpin == [bet |-> 100, mode |-> "NORMAL", hype_mode |-> FALSE]
BuySpin == [bet |-> 100, mode |-> "BUY_FEATURE", hype_mode |-> FALSE]
HypeSpin == [bet |-> 10, mode |-> "NORMAL", hype_mode |-> TRUE]
EngineInputs == {NormalSpin, BuySpin, HypeSpin}

\* RNG outcomes of one spin (engine steps 1-6), each the counts of a grid
\* _generate_grid can produce with the base win _calculate_win gives it
\* (x100): a dead spin
DrawDead ==
  [scatter_count |-> 0, wild_count |-> 0, base_win_x |-> 0,
   win_lines |-> 0, spotlight |-> 0]
\* three LOW3 on one payline: 0.14x
DrawSmallWin ==
  [scatter_count |-> 0, wild_count |-> 0, base_win_x |-> 14,
   win_lines |-> 1, spotlight |-> 0]
\* the same line with two scatters and a wild elsewhere on the grid
DrawMeter ==
  [scatter_count |-> 2, wild_count |-> 1, base_win_x |-> 14,
   win_lines |-> 1, spotlight |-> 0]
\* three scatters: SCATTER_PAYS[3] = 2x, reported as one winLine
DrawScatters ==
  [scatter_count |-> 3, wild_count |-> 0, base_win_x |-> 200,
   win_lines |-> 1, spotlight |-> 0]
\* three scatters, a wild and the 0.14x line
DrawScattersWild ==
  [scatter_count |-> 3, wild_count |-> 1, base_win_x |-> 214,
   win_lines |-> 2, spotlight |-> 0]
\* a grid of HIGH1: 10 paylines of 85.6x
DrawHigh1 ==
  [scatter_count |-> 0, wild_count |-> 0, base_win_x |-> 85600,
   win_lines |-> 10, spotlight |-> 0]
\* a grid of WILD: 10 paylines of 167.4x
DrawWilds ==
  [scatter_count |-> 0, wild_count |-> 15, base_win_x |-> 167400,
   win_lines |-> 10, spotlight |-> 0]
\* a dead spin on which one spotlight wild was placed
DrawSpotlight ==
  [scatter_count |-> 0, wild_count |-> 1, base_win_x |-> 0,
   win_lines |-> 0, spotlight |-> 1]

\* four scatters: SCATTER_PAYS[4] = 10x, and 12 free spins
DrawFourScatters ==
  [scatter_count |-> 4, wild_count |-> 0, base_win_x |-> 1000,
   win_lines |-> 1, spotlight |-> 0]

EngineDraws ==
  { DrawDead, DrawSmallWin, DrawMeter, DrawScatters, DrawScattersWild,
    DrawHigh1, DrawWilds, DrawSpotlight }

\* the GameState a caller holds after playing the spins of `spins` (a
\* sequence of <<input, draw>>) from `st`, carrying next_state each time
RECURSIVE Played(_, _)
Played(st, spins) ==
  IF spins = << >> THEN st
  ELSE CHOOSE end \in
         { Played(next_state, Tail(spins)) : next_state \in
           { EngineSpin(st, spins[1][1].bet, spins[1][1].mode,
                        spins[1][1].hype_mode, spins[1][2]).next_state } } : TRUE

\* n times the same spin
Times(n, spin) == [i \in 1..n |-> spin]

\* the spins a session has played before the model follows it: none; six
\* and seven spins that each fill the meter by 16 (the seventh starts
\* rage); the same, then the three rage spins and six more meter spins
\* during the cooldown; three small wins; a bought bonus played down to its
\* last spin; a natural bonus of 12 free spins after nine winning ones
EngineWarmups ==
  { << >>,
    Times(6, <<NormalSpin, DrawMeter>>),
    Times(7, <<NormalSpin, DrawMeter>>),
    Times(7, <<NormalSpin, DrawMeter>>) \o Times(3, <<NormalSpin, DrawDead>>)
      \o Times(6, <<NormalSpin, DrawMeter>>),
    Times(3, <<NormalSpin, DrawSmallWin>>),
    << <<BuySpin, DrawDead>> >> \o Times(8, <<NormalSpin, DrawDead>>),
    << <<NormalSpin, DrawFourScatters>> >> \o Times(9, <<NormalSpin, DrawSmallWin>>) }

\* the store and the requests of the server model, at rest
ServerAtRest ==
  /\ idem = [c \in ClientRequestIds |-> << >>]
  /\ lock = [p \in Players |-> 0]
  /\ lockTtl = [p \in Players |-> 0]
  /\ state = [p \in Players |-> << >>]
  /\ req = [r \in Requests |-> IdleReq]
  /\ log = [r \in Requests |-> << >>]
  /\ concurrent = {}

EngineInit ==
  /\ ServerAtRest
  /\ \E w \in EngineWarmups : gs = Played(GameState, w)
  /\ last = << >> /\ sess = << >>
  /\ Deployed

\* the number of spins played since the warm-up
SpinsPlayed == IF last = << >> THEN 0 ELSE last[1].n

\* one engine.spin call on the carried state; the caller keeps
\* result.next_state for the next call
EngineStep(input, draw) ==
  /\ SpinsPlayed < MaxSpins
  /\ \E c \in {EngineRun(gs, input.bet, input.mode, input.hype_mode, draw)} :
       /\ gs' = SpinResult(c).next_state
       /\ last' = << [n |-> SpinsPlayed + 1, state |-> gs, bet |-> input.bet,
                      mode |-> input.mode, hype_mode |-> input.hype_mode,
                      draw |-> draw, result |-> SpinResult(c),
                      state_after |-> Argument(c)] >>
  /\ UNCHANGED <<idem, lock, lockTtl, state, req, log, concurrent, sess, settings,
               telemetry_service>>

\* the state goes through the store, as between two /spin requests: what
\* main.spin persists of next_state is what the next request's GameState
\* is built from
EngineReload ==
  /\ last # << >>
  /\ gs' = LoadGameState(SavedState(gs, 0))
  /\ gs' # gs
  /\ UNCHANGED <<idem, lock, lockTtl, state, req, log, concurrent, last, sess,
               settings, telemetry_service>>

EngineNext ==
  \/ \E input \in EngineInputs, draw \in EngineDraws : EngineStep(input, draw)
  \/ EngineReload

EngineSpec == EngineInit /\ [][EngineNext]_vars

\* ---------------------------------------------------------- carried state
\* A caller that keeps the GameState object in memory and passes the
\* next_state of every result to the next engine.spin call (as
\* run_simulation and the engine tests do), with a record of what the
\* results have shown so far.
\* number of spins a carried session plays after its warm-up
MaxCarriedSpins == 4

CarriedInputs == {NormalSpin, BuySpin}
CarriedDraws == {DrawDead, DrawSmallWin, DrawMeter, DrawHigh1, DrawScatters}

\* the events of one result that start, or end, an event of the given type
EventStarts(events, eventType) ==
  { i \in 1..Len(events) : /\ events[i].type = "eventStart"
                           /\ events[i].eventType = eventType }
EventEnds(events, eventType) ==
  { i \in 1..Len(events) : /\ events[i].type = "eventEnd"
                           /\ events[i].eventType = eventType }

\* what a caller has seen before its first spin: no spin, no event;
\* since_rage_start and since_rage_end are -1 until rage has started, ended
NothingSeen ==
  [spins |-> 0, rage_starts |-> 0, rage_ends |-> 0,
   since_rage_start |-> -1, since_rage_end |-> -1,
   boost_starts |-> 0, explosive_starts |-> 0]

\* the record after one more result: the number of spins, the number of
\* eventStart and eventEnd events of each type, and the number of spins
\* played after the latest rage eventStart and eventEnd
Seen(h, result) ==
  LET rage_starts == Cardinality(EventStarts(result.events, "afterpartyRage"))
      rage_ends == Cardinality(EventEnds(result.events, "afterpartyRage"))
  IN [spins |-> h.spins + 1,
      rage_starts |-> h.rage_starts + rage_starts,
      rage_ends |-> h.rage_ends + rage_ends,
      since_rage_start |-> IF rage_starts > 0 THEN 0
                           ELSE IF h.since_rage_start < 0 THEN -1
                           ELSE h.since_rage_start + 1,
      since_rage_end |-> IF rage_ends > 0 THEN 0
                         ELSE IF h.since_rage_end < 0 THEN -1
                         ELSE h.since_rage_end + 1,
      boost_starts |-> h.boost_starts
                         + Cardinality(EventStarts(result.events, "boost")),
      explosive_starts |-> h.explosive_starts
                             + Cardinality(EventStarts(result.events, "explosive"))]

\* the state a caller holds and what it has seen after playing the spins of
\* `spins` (a sequence of <<input, draw>>) from the state st
RECURSIVE CarriedPlayed(_, _, _)
CarriedPlayed(st, h, spins) ==
  IF spins = << >> THEN [gs |-> st, seen |-> h]
  ELSE CHOOSE end \in
         { CarriedPlayed(result.next_state, Seen(h, result), Tail(spins)) :
             result \in
               { EngineSpin(st, spins[1][1].bet, spins[1][1].mode,
                            spins[1][1].hype_mode, spins[1][2]) } } : TRUE

\* the same for a sequence of runs of spins played one after the other
RECURSIVE CarriedPlayedRuns(_, _, _)
CarriedPlayedRuns(st, h, runs) ==
  IF runs = << >> THEN [gs |-> st, seen |-> h]
  ELSE CHOOSE end \in
         { CarriedPlayedRuns(played.gs, played.seen, Tail(runs)) :
             played \in { CarriedPlayed(st, h, runs[1]) } } : TRUE

\* the runs of spins a carried session has played before the model follows
\* it: none; six spins that fill the meter to 96; a rage that was started
\* and played out, and fourteen spins of its cooldown with the meter full; a
\* bonus bought at meter 16 and played down to its last spin; ten wins of
\* 856x; thirty-six small wins; ten wins of 856x, thirty-two small wins
\* and fifty-seven dead spins (99 spins in all)
CarriedWarmups ==
  { << >>,
    << Times(6, <<NormalSpin, DrawMeter>>) >>,
    << Times(7, <<NormalSpin, DrawMeter>>), Times(3, <<NormalSpin, DrawDead>>),
       Times(14, <<NormalSpin, DrawMeter>>) >>,
    << Times(1, <<NormalSpin, DrawMeter>>), Times(1, <<BuySpin, DrawDead>>),
       Times(8, <<NormalSpin, DrawDead>>) >>,
    << Times(10, <<NormalSpin, DrawHigh1>>) >>,
    << Times(18, <<NormalSpin, DrawSmallWin>>),
       Times(18, <<NormalSpin, DrawSmallWin>>) >>,
    << Times(10, <<NormalSpin, DrawHigh1>>),
       Times(16, <<NormalSpin, DrawSmallWin>>),
       Times(16, <<NormalSpin, DrawSmallWin>>),
       Times(19, <<NormalSpin, DrawDead>>), Times(19, <<NormalSpin, DrawDead>>),
       Times(19, <<NormalSpin, DrawDead>>) >> }

\* in this specification `sess` is <<what the caller has seen>>
CarriedInit ==
  /\ ServerAtRest
  /\ \E w \in CarriedWarmups :
       \E played \in {CarriedPlayedRuns(GameState, NothingSeen, w)} :
         gs = played.gs /\ sess = << played.seen >>
  /\ last = << >>
  /\ Deployed

\* one engine.spin call on the carried state
CarriedStep(input, draw) ==
  /\ SpinsPlayed < MaxCarriedSpins
  /\ \E c \in {EngineRun(gs, input.bet, input.mode, input.hype_mode, draw)} :
       /\ gs' = SpinResult(c).next_state
       /\ last' = << [n |-> SpinsPlayed + 1, state |-> gs, bet |-> input.bet,
                      mode |-> input.mode, hype_mode |-> input.hype_mode,
                      draw |-> draw, result |-> SpinResult(c),
                      state_after |-> Argument(c)] >>
       /\ sess' = << Seen(sess[1], SpinResult(c)) >>
  /\ UNCHANGED <<idem, lock, lockTtl, state, req, log, concurrent, settings,
                 telemetry_service>>

CarriedNext ==
  \E input \in CarriedInputs, draw \in CarriedDraws : CarriedStep(input, draw)

CarriedSpec == CarriedInit /\ [][CarriedNext]_vars

\* the caller goes on spinning
FairCarriedSpec == CarriedSpec /\ WF_vars(CarriedNext)

\* ------------------------------------------------------------------ grid
\* engine.spin step 1, _generate_grid: one rng.random() per cell, REELS x
\* ROWS cells. Probabilities and draws are in hundredths.
REELS == 5
ROWS == 3
HYPE_MODE_BONUS_CHANCE_MULTIPLIER == 2

\* values of rng.random(): below the scatter threshold, between it and
\* twice it, and in other bands of the weight table
RandomValues == {0, 1, 2, 3, 5, 10, 50, 95}

\* the weighted symbol selection of _generate_grid
Symbol(r) ==
  IF r < 2 THEN "SCATTER"
  ELSE IF r < 7 THEN "WILD"
  ELSE IF r < 17 THEN "HIGH1"
  ELSE IF r < 27 THEN "HIGH2"
  ELSE IF r < 37 THEN "HIGH3"
  ELSE IF r < 52 THEN "MID1"
  ELSE IF r < 67 THEN "MID2"
  ELSE IF r < 78 THEN "LOW1"
  ELSE IF r < 89 THEN "LOW2"
  ELSE "LOW3"

\* engine.spin step 13: the local base_scatter_chance, which nothing reads
base_scatter_chance(hype_mode) ==
  IF hype_mode THEN 2 * HYPE_MODE_BONUS_CHANCE_MULTIPLIER ELSE 2

GridInit ==
  /\ ServerAtRest
  /\ gs = GameState /\ last = << >> /\ sess = << >>
  /\ Deployed

\* engine.spin is called with the hype flag given and starts a grid; in
\* this specification `last` is << >> or <<the grid under construction:
\* the hype flag, the number of cells generated, the draw and the symbol
\* of the latest cell and the number of scatters so far>>
GridStart(hype_mode) ==
  /\ IF last = << >> THEN TRUE ELSE last[1].cells = REELS * ROWS
  /\ last' = << [hype_mode |-> hype_mode, cells |-> 0, r |-> 0, symbol |-> "",
                 scatter_count |-> 0] >>
  /\ UNCHANGED <<idem, lock, lockTtl, state, req, log, concurrent, gs, sess,
                 settings, telemetry_service>>

\* one pass of the inner loop of _generate_grid, which takes no hype flag
GridCell(r) ==
  /\ last # << >>
  /\ last[1].cells < REELS * ROWS
  /\ last' = << [last[1] EXCEPT !.cells = @ + 1, !.r = r, !.symbol = Symbol(r),
                                !.scatter_count =
                                  IF Symbol(r) = "SCATTER" THEN @ + 1 ELSE @] >>
  /\ UNCHANGED <<idem, lock, lockTtl, state, req, log, concurrent, gs, sess,
                 settings, telemetry_service>>

GridNext ==
  \/ \E hype_mode \in BOOLEAN : GridStart(hype_mode)
  \/ \E r \in RandomValues : GridCell(r)

GridSpec == GridInit /\ [][GridNext]_vars

\* ------------------------------------------------------- audit simulation
\* scripts/audit_sim.run_simulation: one engine, the state carried from
\* call to call, bet_amount 1.0; in base and hype mode every spin is a
\* round, in buy mode a round is the BUY_FEATURE spin and the spins that
\* follow it until the state is back in BASE.
\* rounds of a simulation run
MaxAuditRounds == 2

AuditDraws == {DrawDead, DrawScatters, DrawHigh1, DrawWilds}

\* SimulationStats() and the locals of run_simulation before the loop; in
\* this specification `last` is <<the mode of the run, stats.rounds,
\* stats.max_win_x_observed (x100), round_total_win of the bonus session
\* in progress and whether one is in progress>>
AuditInit ==
  /\ ServerAtRest
  /\ gs = GameState /\ sess = << >>
  /\ Deployed
  /\ \E mode \in {"base", "hype", "buy"} :
       last = << [mode |-> mode, rounds |-> 0, max_win_x_observed |-> 0,
                  round_total_win |-> 0, in_session |-> FALSE] >>

\* the bookkeeping at the end of a round whose win multiple (x100) is given
RoundTracked(stats, round_win_x) ==
  [stats EXCEPT !.rounds = @ + 1,
                !.max_win_x_observed = IF round_win_x > @ THEN round_win_x ELSE @,
                !.round_total_win = 0,
                !.in_session = FALSE]

\* the else branch of the loop: a base or hype round
AuditSpin(draw) ==
  /\ last[1].mode \in {"base", "hype"}
  /\ last[1].rounds < MaxAuditRounds
  /\ \E result \in {EngineSpin(gs, 100, "NORMAL", last[1].mode = "hype", draw)} :
       /\ gs' = result.next_state
       /\ last' = << RoundTracked(last[1], result.total_win_x) >>
  /\ UNCHANGED <<idem, lock, lockTtl, state, req, log, concurrent, sess,
                 settings, telemetry_service>>

\* one engine.spin call of a buy round with its bookkeeping: the
\* BUY_FEATURE spin when no session is in progress, a free spin otherwise;
\* the round is tracked when the state leaves FREE_SPINS
AuditBuySpin(draw) ==
  /\ last[1].mode = "buy"
  /\ last[1].in_session \/ last[1].rounds < MaxAuditRounds
  /\ \E result \in {EngineSpin(gs, 100,
                               IF last[1].in_session THEN "NORMAL" ELSE "BUY_FEATURE",
                               FALSE, draw)} :
       LET round_total_win == last[1].round_total_win + result.total_win
       IN /\ gs' = result.next_state
          /\ last' = IF result.next_state.mode = "FREE_SPINS"
                       THEN << [last[1] EXCEPT !.round_total_win = round_total_win,
                                               !.in_session = TRUE] >>
                       ELSE << RoundTracked(last[1], round_total_win \div 100) >>
  /\ UNCHANGED <<idem, lock, lockTtl, state, req, log, concurrent, sess,
                 settings, telemetry_service>>

AuditNext ==
  \/ \E draw \in AuditDraws : AuditSpin(draw)
  \/ \E draw \in AuditDraws : AuditBuySpin(draw)

AuditSpec == AuditInit /\ [][AuditNext]_vars

\* the simulation run to its end: the loops of run_simulation go on calling
\* engine.spin, nothing else is scheduled
FairAuditSpec ==
  AuditSpec /\ WF_vars(\E draw \in AuditDraws : AuditBuySpin(draw))

\* ----------------------------------------------------------------- retry
\* The spins of two players whose clients send a request again, with the
\* same clientRequestId and payload, when the answer says recoverable
\* (errors.ERROR_RECOVERABLE). A client names one payload by one
\* clientRequestId; the two clients may pick the same id.
RetryBodies(player) ==
  IF player = "p1"
    THEN { [clientRequestId |-> "c1", betAmount |-> 100, mode |-> "NORMAL",
            hypeMode |-> FALSE],
           [clientRequestId |-> "c2", betAmount |-> 100, mode |-> "BUY_FEATURE",
            hypeMode |-> FALSE] }
    ELSE { [clientRequestId |-> "c1", betAmount |-> 100, mode |-> "BUY_FEATURE",
            hypeMode |-> FALSE] }

\* POST /spin sent again after ROUND_IN_PROGRESS or INTERNAL_ERROR: a new
\* run of main.spin with the same header and body, which passes validation
\* as the first did
Retry(r) ==
  /\ req[r].pc = "done"
  /\ req[r].error # "" /\ req[r].recoverable
  /\ req' = [req EXCEPT ![r] =
               [IdleReq EXCEPT !.pc = "fast", !.player_id = req[r].player_id,
                               !.body = req[r].body, !.retry = TRUE]]
  /\ log' = [log EXCEPT ![r] = << >>]
  /\ concurrent' = concurrent \cup {{r, o} : o \in {q \in Requests : InFlight(q)}}
  /\ UNCHANGED <<idem, lock, lockTtl, state, aside>>

RetryNext ==
  \/ \E r \in Requests, p \in Players : \E b \in RetryBodies(p) : Start(r, p, b)
  \/ \E r \in Requests : FastCheck(r)
  \/ \E r \in Requests : Acquire(r)
  \/ \E r \in Requests : SlowCheck(r)
  \/ \E r \in Requests, d \in Draws : Load(r, d)
  \/ \E r \in Requests : StoreIdem(r)
  \/ \E r \in Requests : Save(r)
  \/ \E r \in Requests : Release(r)
  \/ \E r \in Requests : Raise(r)
  \/ \E r \in Requests : Crash(r)
  \/ \E p \in Players : Tick(p)
  \/ \E r \in Requests : Retry(r)

\* The event loop runs every coroutine that is ready, the Redis clock
\* keeps running, and the client sends its retry.
RetrySpec ==
  /\ Init /\ [][RetryNext]_vars
  /\ \A p \in Players : WF_vars(Tick(p))
  /\ \A r \in Requests :
       /\ WF_vars(FastCheck(r) \/ Acquire(r) \/ SlowCheck(r) \/ StoreIdem(r)
                  \/ Save(r) \/ Release(r) \/ \E d \in Draws : Load(r, d))
       /\ WF_vars(Retry(r))

\* ------------------------------------------------------- feature flags
\* The server model under every setting of the two feature flags
\* (APP_ENABLE_BUY_FEATURE, APP_ENABLE_HYPE_MODE_ANTE_BET), for requests of
\* one player with one clientRequestId, with and without the player header.
ConfigInit ==
  /\ ServerAtRest
  /\ gs = GameState /\ last = << >> /\ sess = << >>
  /\ telemetry_service = TelemetryService("logging")
  /\ \E buy \in BOOLEAN, hype \in BOOLEAN :
       settings = [enable_buy_feature |-> buy, enable_hype_mode_ante_bet |-> hype]

ConfigBodies == {b \in Bodies : b.clientRequestId = "c1"}

ConfigNext ==
  \/ \E r \in Requests, h \in {"", "p1"}, b \in ConfigBodies : Start(r, h, b)
  \/ \E r \in Requests : FastCheck(r)
  \/ \E r \in Requests : Acquire(r)
  \/ \E r \in Requests : SlowCheck(r)
  \/ \E r \in Requests, d \in Draws : Load(r, d)
  \/ \E r \in Requests : StoreIdem(r)
  \/ \E r \in Requests : Save(r)
  \/ \E r \in Requests : Release(r)
  \/ \E r \in Requests : Raise(r)
  \/ \E r \in Requests : Crash(r)
  \/ Tick("p1")

ConfigSpec == ConfigInit /\ [][ConfigNext]_vars

\* --------------------------------------------------------- client session
\* One client of one player sends its requests one after the other, each
\* handler running to its end before the next request: GET /init and POST
\* /spin, the spin fresh, replayed or rejected.
\* number of fresh spins of a client session
MaxRounds == 12

player_id == "p1"
\* the clientRequestId of the request the client sends or replays; the key
\* is free for the next fresh spin once its record has expired
clientRequestId == "c1"

\* the payloads of the session: a normal spin, a buy, and a bet that is
\* not allowed
SessionPayloads ==
  { [betAmount |-> 100, mode |-> "NORMAL", hypeMode |-> FALSE],
    [betAmount |-> 100, mode |-> "BUY_FEATURE", hypeMode |-> FALSE],
    [betAmount |-> 300, mode |-> "NORMAL", hypeMode |-> FALSE] }

SessionDraws == {DrawDead, DrawSmallWin, DrawScatters}

\* main.init without the heatLevel of the stored state
restore_state_no_heat(state_data) ==
  IF /\ state_data # << >>
     /\ state_data[1].mode = "FREE_SPINS"
     /\ state_data[1].free_spins_remaining > 0
    THEN << [mode |-> "FREE_SPINS",
             spinsRemaining |-> state_data[1].free_spins_remaining,
             heatLevel |-> 0] >>
    ELSE << >>

\* main.init: restore_state built from the stored dict, << >> for None
restore_state(state_data) ==
  IF /\ state_data # << >>
     /\ state_data[1].mode = "FREE_SPINS"
     /\ state_data[1].free_spins_remaining > 0
    THEN << [mode |-> "FREE_SPINS",
             spinsRemaining |-> state_data[1].free_spins_remaining,
             heatLevel |-> state_data[1].heat_level] >>
    ELSE << >>

\* the number of fresh spins the session has played
Rounds == IF sess = << >> THEN 0 ELSE sess[1].rounds

\* the response of the session's latest POST /spin, << >> when there was
\* none or it was an error
LatestResponse == IF sess = << >> THEN << >> ELSE sess[1].response

\* the exchange a GET /init or POST /spin leaves in `sess`: the kind of
\* request, the status and error code, for a spin its payload, whether the
\* response came from the idempotency record, the state key the handler
\* read, the body of the latest spin response and the restoreState of the
\* init response
Exchange(op, rounds, payload, error, replay, state_data, response, restoreState) ==
  << [op |-> op, rounds |-> rounds, payload |-> payload,
      status |-> IF error = "" THEN 200 ELSE ERROR_HTTP_STATUS(error),
      error |-> error, replay |-> replay, state_data |-> state_data,
      response |-> response, restoreState |-> restoreState] >>

SessionInit ==
  /\ ServerAtRest
  /\ gs = GameState /\ last = << >> /\ sess = << >>
  /\ Deployed

\* sink failures counted in a session
MaxSinkErrors == 3

\* _safe_emit without the try/except: the sink's exception reaches the caller
_safe_emit_propagates(service, event) ==
  [service |-> service, raised |-> service.sink = "failing"]

\* TelemetryService._safe_emit: the service after self._sink.emit, and
\* whether the call raises; an exception of the sink is counted in
\* _sink_errors and logged
_safe_emit(service, event) ==
  [service |-> IF service.sink = "failing"
                 THEN [service EXCEPT !.sink_errors = @ + 1] ELSE service,
   raised |-> FALSE]

\* main.init made to run under the player lock, as main.spin does
init_under_player_lock(service) ==
  LET state_data == state[player_id]
      restored == restore_state(state_data)
      held == ~acquire_ok(lock[player_id])
  IN [error |-> IF held THEN "ROUND_IN_PROGRESS" ELSE "",
      state_data |-> IF held THEN << >> ELSE state_data,
      restoreState |-> IF held THEN << >> ELSE restored,
      idem |-> idem, state |-> state, lock |-> lock, service |-> service]

\* main.init run to its end with the telemetry service given: the error
\* code ("" for 200), the state key read, the restoreState of the body, the
\* store it leaves and the telemetry service it leaves. An exception out
\* of the handler is answered INTERNAL_ERROR by the error middleware.
init(service) ==
  LET state_data == state[player_id]
      restored == restore_state(state_data)
      emitted == _safe_emit(service, [event |-> "init_served",
                                      restore_state_present |-> restored # << >>])
  IN [error |-> IF emitted.raised THEN "INTERNAL_ERROR" ELSE "",
      state_data |-> state_data,
      restoreState |-> IF emitted.raised THEN << >> ELSE restored,
      idem |-> idem, state |-> state, lock |-> lock,
      service |-> emitted.service]

\* main.spin run from validation to the release of the lock with the
\* telemetry service given: the error code ("" for 200), whether the
\* response came from the idempotency record, whether the engine was run,
\* the state key read, the response body, the store it leaves and the
\* telemetry service it leaves, and the next_state the engine returned
spin(service, payload, draw) ==
  LET body == [clientRequestId |-> clientRequestId, betAmount |-> payload.betAmount,
               mode |-> payload.mode, hypeMode |-> payload.hypeMode]
      invalid == validate_spin_request(body)
      cached == idem[clientRequestId]
      found == check_idempotency(cached, Payload(body))
      token == Rounds + 1
      state_data == state[player_id]
      bcc == bonus_continuation_count(state_data)
      rejected == _safe_emit(service, [event |-> "spin_rejected",
                                       reason |-> "ROUND_IN_PROGRESS"])
      untouched == [error |-> "", replay |-> FALSE, fresh |-> FALSE,
                    state_data |-> << >>, response |-> << >>, idem |-> idem,
                    state |-> state, lock |-> lock, service |-> service,
                    next_state |-> << >>]
      \* steps 5 to 11 under the lock, the engine's result given
      evaluated(result) ==
        LET response == SpinResponse(Rounds + 1, result)
            processed ==
              _safe_emit(service,
                         [event |-> "spin_processed", round_id |-> Rounds + 1,
                          is_bonus_continuation |-> is_bonus_continuation(state_data),
                          bonus_continuation_count |-> bcc,
                          mode |-> _get_telemetry_mode(body),
                          bonus_variant |-> _extract_bonus_variant(result.events)])
        IN [error |-> IF processed.raised THEN "INTERNAL_ERROR" ELSE "",
            replay |-> FALSE, fresh |-> TRUE, state_data |-> state_data,
            response |-> IF processed.raised THEN << >> ELSE << response >>,
            idem |-> [idem EXCEPT ![clientRequestId] =
                        store_idempotency(Payload(body), response)],
            state |-> [state EXCEPT ![player_id] = SavedState(result.next_state, bcc)],
            lock |-> [lock EXCEPT ![player_id] = release_player_lock(token, token)],
            service |-> processed.service,
            next_state |-> << result.next_state >>]
  IN CASE invalid # "" -> [untouched EXCEPT !.error = invalid]
       [] invalid = "" /\ found = "hit" ->
            [untouched EXCEPT !.replay = TRUE, !.response = << cached[1].response >>]
       [] invalid = "" /\ found = "conflict" ->
            [untouched EXCEPT !.error = "IDEMPOTENCY_CONFLICT"]
       [] invalid = "" /\ found = "miss" /\ ~acquire_ok(lock[player_id]) ->
            [untouched EXCEPT !.error = IF rejected.raised THEN "INTERNAL_ERROR"
                                        ELSE "ROUND_IN_PROGRESS",
                              !.service = rejected.service]
       [] invalid = "" /\ found = "miss" /\ acquire_ok(lock[player_id]) ->
            CHOOSE out \in
              { evaluated(result) :
                  result \in { EngineSpin(LoadGameState(state_data), body.betAmount,
                                          body.mode, body.hypeMode, draw) } } : TRUE

\* GET /init (main.init): reads the state key and answers
GetInit ==
  \E out \in {init(telemetry_service)} :
     /\ out.service.sink_errors <= MaxSinkErrors
     /\ sess' = Exchange("init", Rounds, Payload(NoBody), out.error, FALSE,
                         out.state_data, LatestResponse, out.restoreState)
     /\ idem' = out.idem
     /\ state' = out.state
     /\ lock' = out.lock
     /\ telemetry_service' = out.service
     /\ UNCHANGED <<lockTtl, req, log, concurrent, gs, last, settings>>

\* POST /spin (main.spin) from validation to the release of the lock
PostSpin(payload, draw) ==
  \E out \in {spin(telemetry_service, payload, draw)} :
     /\ out.fresh => Rounds < MaxRounds
     /\ out.service.sink_errors <= MaxSinkErrors
     /\ idem' = out.idem
     /\ state' = out.state
     /\ lock' = out.lock
     /\ telemetry_service' = out.service
     /\ sess' = Exchange("spin", IF out.fresh THEN Rounds + 1 ELSE Rounds, payload,
                         out.error, out.replay, out.state_data, out.response, << >>)
     /\ gs' = IF out.fresh THEN out.next_state[1] ELSE gs
     /\ UNCHANGED <<lockTtl, req, log, concurrent, last, settings>>

\* the idempotency record of the client's request id expires
\* (IDEMPOTENCY_TTL), after which the id names a fresh request
IdemExpire ==
  /\ idem[clientRequestId] # << >>
  /\ idem' = [idem EXCEPT ![clientRequestId] = << >>]
  /\ UNCHANGED <<lock, lockTtl, state, req, log, concurrent, gs, last, sess,
               settings, telemetry_service>>

SessionNext ==
  \/ GetInit
  \/ \E payload \in SessionPayloads, draw \in SessionDraws : PostSpin(payload, draw)
  \/ IdemExpire

SessionSpec == SessionInit /\ [][SessionNext]_vars

\* a POST /spin that is evaluated: not a replay, not rejected
FreshSpin ==
  /\ \E payload \in SessionPayloads, draw \in SessionDraws : PostSpin(payload, draw)
  /\ sess'[1].rounds = Rounds + 1

\* The client goes on sending fresh spins: records expire and fresh spins
\* are sent as long as the session lasts.
FairSessionSpec ==
  /\ SessionInit /\ [][SessionNext]_vars
  /\ WF_vars(IdemExpire)
  /\ WF_vars(FreshSpin)

\* ------------------------------------------------------ telemetry session
\* The client session of one player with either sink installed
\* (telemetry_service.set_sink), while another request of the player may be
\* inside its lock scope, so that spins of the session are rejected too.
\* the token of the other request, none of the session's
OtherToken == MaxRounds + 1

\* player_lock's acquire of another request of the player
OtherAcquire ==
  /\ acquire_ok(lock[player_id])
  /\ lock' = [lock EXCEPT ![player_id] = OtherToken]
  /\ lockTtl' = [lockTtl EXCEPT ![player_id] = acquire_ttl]
  /\ UNCHANGED <<idem, state, req, log, concurrent, gs, last, sess, settings,
                 telemetry_service>>

\* that request fails before its writes and player_lock's finally releases
OtherRelease ==
  /\ lock[player_id] = OtherToken
  /\ lock' = [lock EXCEPT ![player_id] = release_player_lock(@, OtherToken)]
  /\ lockTtl' = [lockTtl EXCEPT ![player_id] = 0]
  /\ UNCHANGED <<idem, state, req, log, concurrent, gs, last, sess, settings,
                 telemetry_service>>

TelemetryInit ==
  /\ ServerAtRest
  /\ gs = GameState /\ last = << >> /\ sess = << >>
  /\ settings = Settings
  /\ \E sink \in {"logging", "failing"} : telemetry_service = TelemetryService(sink)

TelemetryNext ==
  \/ SessionNext
  \/ OtherAcquire
  \/ OtherRelease

TelemetrySpec == TelemetryInit /\ [][TelemetryNext]_vars

\* ---------------------------------------------------------------- claims
StateWrites == {"state_setex", "state_del"}
StoreWrites == StateWrites \cup {"idem_setex"}
LockEvals == {"lock_eval_0", "lock_eval_1"}
Wrote(r, ops) == \E i \in 1..Len(log[r]) : log[r][i] \in ops
LastOp(r) == IF log[r] = << >> THEN "" ELSE log[r][Len(log[r])]
Record(r) == idem[req[r].body.clientRequestId]
\* a step of request r other than a crash or an unrelated exception
Proceeds(r) ==
  req'[r] # req[r] /\ req'[r].pc # "crashed" /\ req'[r].error # "INTERNAL_ERROR"
\* request r is answering (or has answered) from the idempotency cache
CacheHit(r) ==
  /\ req[r].pc \in {"release", "done"}
  /\ req[r].error = ""
  /\ req[r].result = << >>
  /\ req[r].response # << >>

\* C1: a /spin whose clientRequestId has a stored record with the same
\* payload hash returns exactly the stored response, on the fast path and
\* under the lock, and neither writes nor deletes the state key or any
\* idempotency key, whatever the stored state is.
C1_ReplayReturnsStored ==
  [][\A r \in Requests :
       /\ ( /\ req[r].pc \in {"fast", "slow"}
            /\ Record(r) # << >>
            /\ Record(r)[1].payload_hash = _payload_hash(Payload(req[r].body))
            /\ Proceeds(r) )
          => /\ req'[r].response = << Record(r)[1].response >>
             /\ req'[r].error = ""
             /\ req'[r].pc = (IF req[r].pc = "fast" THEN "done" ELSE "release")
             /\ idem' = idem /\ state' = state
       /\ (CacheHit(r) /\ req[r].pc = "release" /\ Proceeds(r))
          => /\ req'[r].pc = "done" /\ req'[r].status = 200
             /\ req'[r].response = req[r].response
             /\ idem' = idem /\ state' = state
       /\ CacheHit(r)' => ~Wrote(r, StoreWrites)'
    ]_vars

\* a replay answered under the lock with a response another request
\* computed, while the player's stored state is not the one that response
\* reports
C1_Witness ==
  \E r \in Requests :
    /\ req[r].pc = "done" /\ CacheHit(r) /\ req[r].token # 0
    /\ req[r].response[1].roundId # r
    /\ req[r].response[1].nextState.mode = "FREE_SPINS"
    /\ state[req[r].player_id] = << >>

PlayableFreeSpins(p) ==
  IF state[p] # << >> /\ state[p][1].mode = "FREE_SPINS"
    THEN state[p][1].free_spins_remaining ELSE 0

\* request r died between its idempotency write and its state write, its
\* record is still the stored one, and no other request of the player has
\* written the state
CrashedBetweenWrites(r) ==
  /\ req[r].pc = "crashed"
  /\ LastOp(r) = "idem_setex"
  /\ Record(r) # << >>
  /\ Record(r)[1].response.roundId = r
  /\ \A o \in Requests \ {r} :
       req[o].player_id = req[r].player_id => ~Wrote(o, StateWrites)

\* C3: after a crash between the idempotency write and the state write the
\* player has not lost a spin: the free spins still playable from the
\* persisted state are at least the spinsRemaining of the cached response
\* (bonus entry, bonus continuation and final bonus spin alike).
C3_NoSpinLost ==
  \A r \in Requests :
    CrashedBetweenWrites(r)
    => PlayableFreeSpins(req[r].player_id)
         >= Record(r)[1].response.nextState.spinsRemaining

\* the requests of player p between lock acquisition and release
InScopeOf(p) == {r \in Requests : InLockScope(r) /\ req[r].player_id = p}

\* C4: at most one request per player is between lock acquisition and lock
\* release, under any interleaving of requests and lock-key TTL expiry.
C4_MutualExclusion ==
  \A p \in Players : Cardinality(InScopeOf(p)) <= 1

C6_AtMostOne200 ==
  \A r1, r2 \in Requests :
    ( /\ r1 # r2 /\ {r1, r2} \in concurrent
      /\ req[r1].player_id = req[r2].player_id
      /\ req[r1].pc = "done" /\ req[r2].pc = "done" )
    => ~(req[r1].status = 200 /\ req[r2].status = 200)

\* C6: a spin that tries to take the lock while the player's
\* lock key is present is answered 409 ROUND_IN_PROGRESS in that very step
\* (no wait, no retry) and writes neither an idempotency record nor the
\* state; otherwise it takes the lock.
C6_RejectedAtOnce ==
  [][\A r \in Requests :
       (req[r].pc = "acquire" /\ req'[r] # req[r])
       => LET p == req[r].player_id
          IN IF lock[p] # 0
               THEN /\ req'[r].pc = "done"
                    /\ req'[r].error = "ROUND_IN_PROGRESS"
                    /\ req'[r].status = 409
                    /\ log'[r] = << "idem_get", "lock_setnx" >>
                    /\ idem' = idem /\ state' = state /\ lock' = lock
               ELSE /\ req'[r].pc = "slow"
                    /\ lock'[p] = req'[r].token
    ]_vars

C6_Witness ==
  \E r1, r2 \in Requests :
    /\ {r1, r2} \in concurrent
    /\ req[r2].pc = "done" /\ req[r2].error = "ROUND_IN_PROGRESS"
    /\ req[r1].player_id = req[r2].player_id
    /\ InLockScope(r1) /\ lock[req[r1].player_id] = req[r1].token
    /\ req[r2].recoverable

\* two requests with one clientRequestId and one payload
SameRequest(r1, r2) ==
  /\ req[r1].body.clientRequestId = req[r2].body.clientRequestId
  /\ req[r1].body.clientRequestId # ""
  /\ Payload(req[r1].body) = Payload(req[r2].body)

\* C7: for requests that share one clientRequestId and payload the engine
\* is invoked at most once, one idempotency record is ever written, and
\* every 200 response carries the same roundId.
C7_SingleEvaluation ==
  \A r1, r2 \in Requests :
    (r1 # r2 /\ SameRequest(r1, r2))
    => /\ ~(Wrote(r1, {"idem_setex"}) /\ Wrote(r2, {"idem_setex"}))
       /\ ( /\ req[r1].pc = "done" /\ req[r1].status = 200
            /\ req[r2].pc = "done" /\ req[r2].status = 200 )
          => req[r1].response[1].roundId = req[r2].response[1].roundId

\* C8: a /spin whose clientRequestId has a stored record with a different
\* payload hash fails with IDEMPOTENCY_CONFLICT (409, recoverable=false)
\* on whichever path detects it, leaves the record and the state unchanged
\* and does not hold the player's lock afterwards.
C8_Conflict ==
  [][\A r \in Requests :
       /\ ( /\ req[r].pc \in {"fast", "slow"}
            /\ Record(r) # << >>
            /\ Record(r)[1].payload_hash # _payload_hash(Payload(req[r].body))
            /\ Proceeds(r) )
          => /\ req'[r].error = "IDEMPOTENCY_CONFLICT"
             /\ req'[r].pc = (IF req[r].pc = "fast" THEN "done" ELSE "release")
             /\ idem' = idem /\ state' = state
       /\ (req[r].pc = "release" /\ req[r].error = "IDEMPOTENCY_CONFLICT"
           /\ Proceeds(r))
          => idem' = idem /\ state' = state
       /\ (req'[r].pc = "done" /\ req'[r].error = "IDEMPOTENCY_CONFLICT")
          => /\ req'[r].status = 409
             /\ ~req'[r].recoverable
             /\ req'[r].response = << >>
             /\ ~Wrote(r, StoreWrites)'
             /\ ~(req'[r].token # 0 /\ lock'[req'[r].player_id] = req'[r].token)
    ]_vars

\* a conflict detected under the lock
C8_Witness ==
  \E r \in Requests :
    /\ req[r].pc = "done" /\ req[r].error = "IDEMPOTENCY_CONFLICT"
    /\ req[r].token # 0 /\ LastOp(r) = "lock_eval_1"

\* C9: whenever the body guarded by player_lock exits (completion, slow
\* path hit, GameError, any other exception) the request's lock is
\* released with its own token, so no spin is rejected with
\* ROUND_IN_PROGRESS because of a request that has already finished.
C9_ReleasedOnEveryExit ==
  [][\A r \in Requests :
       /\ (req'[r].pc = "done" /\ req'[r].token # 0)
          => lock'[req'[r].player_id] # req'[r].token
       /\ (req[r].pc = "acquire" /\ req'[r].error = "ROUND_IN_PROGRESS")
          => LET holder == lock[req[r].player_id]
             IN holder \in Requests /\ req[holder].pc # "done"
    ]_vars

\* the exception path: a request that failed with INTERNAL_ERROR inside
\* the lock scope released its own lock
C9_Witness ==
  \E r \in Requests :
    /\ req[r].pc = "done" /\ req[r].error = "INTERNAL_ERROR"
    /\ Wrote(r, {"idem_setex"}) /\ LastOp(r) = "lock_eval_1"

\* C10: every lock key carries a positive TTL, and the lock of a holder
\* that crashed without releasing eventually expires, after which a spin
\* of that player can take the lock.
C10_CrashedLockExpires ==
  /\ [](\A p \in Players : lock[p] # 0 => lockTtl[p] \in 1..LockTtlTicks)
  /\ \A p \in Players :
       (lock[p] # 0 /\ req[lock[p]].pc = "crashed") ~> (lock[p] = 0)

\* a spin that took the lock after a crashed holder's record was written
\* and was answered 200
C10_Witness ==
  \E r1, r2 \in Requests :
    /\ req[r1].pc = "crashed" /\ req[r1].token # 0
    /\ req[r2].player_id = req[r1].player_id
    /\ req[r2].pc = "done" /\ req[r2].status = 200 /\ req[r2].token # 0
    /\ req[r2].response[1].roundId = r1

\* the value sd of a state key agrees with the nextState ns of a response
StateAgrees(sd, ns) ==
  /\ ns.mode = "BASE" => sd = << >>
  /\ (ns.mode = "FREE_SPINS" /\ ns.spinsRemaining > 0)
     => /\ sd # << >>
        /\ sd[1].mode = ns.mode
        /\ sd[1].free_spins_remaining = ns.spinsRemaining
        /\ sd[1].heat_level = ns.heatLevel

\* C11: when a spin's response is returned (200), the player's state key is
\* absent if the response's nextState is BASE, and present with the
\* response's mode, spinsRemaining and heatLevel if it is FREE_SPINS with
\* spinsRemaining > 0.
C11_StateMatchesResponse ==
  [][\A r \in Requests :
       (req[r].pc # "done" /\ req'[r].pc = "done" /\ req'[r].status = 200)
       => StateAgrees(state'[req[r].player_id], req'[r].response[1].nextState)
    ]_vars

\* C11: the state write of a fresh spin erases the state key when the
\* spin's response has nextState BASE and writes it with the response's
\* mode, spinsRemaining and heatLevel when it has FREE_SPINS with
\* spinsRemaining > 0; a replay leaves the key as it is.
C11_FreshSpinWritesState ==
  [][\A r \in Requests :
       /\ (req[r].pc = "save" /\ Proceeds(r))
          => StateAgrees(state'[req[r].player_id], req[r].response[1].nextState)
       /\ (CacheHit(r)' /\ req'[r] # req[r])
          => state'[req'[r].player_id] = state[req'[r].player_id]
    ]_vars

\* the last spin of a stored bonus has erased the state key, and a spin of
\* another request has written it
C11_Witness ==
  \E r \in Requests :
    /\ req[r].pc = "release" /\ req[r].error = ""
    /\ req[r].state_data # << >>
    /\ LastOp(r) = "state_del"
    /\ req[r].response[1].nextState.mode = "BASE"
    /\ state[req[r].player_id] = << >>
    /\ \E o \in Requests : Wrote(o, {"state_setex"})

\* the spin of `last` is played as a spin of a bought bonus: the input state
\* is in a bought bonus, or the spin buys one from BASE
PlayedInBoughtBonus(l) ==
  \/ l.state.mode = "FREE_SPINS" /\ l.state.bonus_is_bought
  \/ l.mode = "BUY_FEATURE" /\ l.state.mode = "BASE"

\* the spin of `last` is played under rage
PlayedInRage(l) == l.state.rage_active /\ l.state.rage_spins_left > 0

\* the total win multiple (x100) of the spin of `last` before clamping
UnclampedTotalWinX(l) ==
  l.draw.base_win_x
    * (IF PlayedInBoughtBonus(l) THEN FREE_SPINS_WIN_MULTIPLIER ELSE 1)
    * (IF PlayedInRage(l) THEN AFTERPARTY_RAGE_MULTIPLIER ELSE 1)

\* C12: for every engine call, total_win_x <= MAX_WIN_TOTAL_X; is_capped
\* iff the unclamped win multiple (base win x applied multipliers / bet)
\* exceeds MAX_WIN_TOTAL_X; when capped, total_win_x is the cap, total_win
\* is cap x bet and cap_reason is max_win_base for a spin played in BASE and
\* max_win_bonus otherwise; when not capped cap_reason is null.
C12_Cap ==
  last # << >> =>
    LET l == last[1]
        r == l.result
    IN /\ r.total_win_x <= MAX_WIN_TOTAL_X * 100
       /\ r.is_capped <=> UnclampedTotalWinX(l) > MAX_WIN_TOTAL_X * 100
       /\ r.is_capped =>
            /\ r.total_win_x = MAX_WIN_TOTAL_X * 100
            /\ r.total_win = MAX_WIN_TOTAL_X * 100 * l.bet
            /\ r.cap_reason =
                 IF l.state.mode = "BASE" /\ l.mode # "BUY_FEATURE"
                   THEN "max_win_base" ELSE "max_win_bonus"
       /\ ~r.is_capped => r.cap_reason = "null"

\* a spin played with the bought-bonus and the rage multiplier whose win was
\* clamped
C12_Witness ==
  /\ last # << >>
  /\ PlayedInBoughtBonus(last[1]) /\ PlayedInRage(last[1])
  /\ last[1].result.is_capped
  /\ last[1].result.total_win_x = MAX_WIN_TOTAL_X * 100
  /\ last[1].result.cap_reason = "max_win_bonus"

\* the invariant of C18 on a record with the fields mode,
\* free_spins_remaining, heat_level and bonus_is_bought
BaseIffNoFreeSpins(st) ==
  /\ st.mode = "BASE" => /\ st.free_spins_remaining = 0
                         /\ st.heat_level = 0
                         /\ ~st.bonus_is_bought
  /\ st.free_spins_remaining = 0 <=> st.mode = "BASE"

\* C18: in every engine next_state reached by carrying the state from spin
\* to spin, and in every state /spin persists from one: mode = BASE implies
\* free_spins_remaining = 0, heat_level = 0 and not bonus_is_bought, and
\* free_spins_remaining = 0 iff mode = BASE.
C18_BaseInvariant ==
  /\ BaseIffNoFreeSpins(gs)
  /\ \A i \in 1..Len(SavedState(gs, 0)) : BaseIffNoFreeSpins(SavedState(gs, 0)[i])

\* the last spin of a bought bonus with heat has returned the state to BASE
C18_Witness ==
  /\ last # << >>
  /\ last[1].state.mode = "FREE_SPINS" /\ last[1].state.bonus_is_bought
  /\ last[1].state.heat_level > 0
  /\ last[1].state.free_spins_remaining = 1
  /\ gs.mode = "BASE"

\* C19: in every engine next_state reached by carrying the state from spin
\* to spin, rage_active implies rage_spins_left > 0 and mode = BASE, and
\* rage_spins_left = 0 whenever rage_active is false.
C19_RageInvariant ==
  /\ gs.rage_active => gs.rage_spins_left > 0 /\ gs.mode = "BASE"
  /\ ~gs.rage_active => gs.rage_spins_left = 0

\* C20: after any sequence of spins, afterparty_meter is in
\* 0..AFTERPARTY_METER_MAX, heat_level in 0..10, and free_spins_remaining,
\* rage_spins_left, rage_cooldown_remaining, the two streak counters and the
\* four window counters are not negative.
C20_Ranges ==
  /\ gs.afterparty_meter \in 0..AFTERPARTY_METER_MAX
  /\ gs.heat_level \in 0..10
  /\ gs.free_spins_remaining >= 0
  /\ gs.rage_spins_left >= 0
  /\ gs.rage_cooldown_remaining >= 0
  /\ gs.deadspins_streak >= 0 /\ gs.smallwins_streak >= 0
  /\ gs.spins_in_window >= 0 /\ gs.events_in_window >= 0
  /\ gs.boost_in_window >= 0 /\ gs.explosive_in_window >= 0
  /\ gs.rage_in_window >= 0

\* a winning free spin played at heat 10 has left the heat at 10 in a
\* bonus that goes on
C20_Witness ==
  /\ last # << >>
  /\ last[1].result.total_win > 0
  /\ last[1].state.mode = "FREE_SPINS" /\ last[1].state.heat_level = 10
  /\ gs.mode = "FREE_SPINS" /\ gs.heat_level = 10

\* the positions of the events of type t in an event list
EventsOfType(events, t) == { i \in 1..Len(events) : events[i].type = t }

\* C14: in every spin result, for every spin mode and input state, the
\* events list holds exactly one reveal event and it is the first element.
C14_RevealFirst ==
  last # << >> =>
    LET events == last[1].result.events
    IN /\ Cardinality(EventsOfType(events, "reveal")) = 1
       /\ events[1].type = "reveal"

\* the order of event types of the protocol
EventTypeOrder ==
  << "reveal", "spotlightWilds", "winLine", "afterpartyMeterUpdate",
     "eventStart", "eventEnd", "enterFreeSpins", "heatUpdate", "bonusEnd",
     "winTier" >>

\* the place of an event type in EventTypeOrder
EventRank(t) == CHOOSE k \in 1..Len(EventTypeOrder) : EventTypeOrder[k] = t

\* C15: in every spin result the sequence of event types is a subsequence
\* of the order reveal, spotlightWilds, winLine, afterpartyMeterUpdate,
\* eventStart, eventEnd, enterFreeSpins, heatUpdate, bonusEnd, winTier: no
\* event of a later type comes before one of an earlier type, winTier when
\* present is last, and the afterpartyMeterUpdate of a spin precedes the
\* afterpartyRage eventStart it triggered.
C15_EventOrder ==
  last # << >> =>
    LET events == last[1].result.events
    IN /\ \A i, j \in 1..Len(events) :
            i < j => EventRank(events[i].type) <= EventRank(events[j].type)
       /\ \A i \in EventsOfType(events, "winTier") : i = Len(events)
       /\ \A j \in EventsOfType(events, "eventStart") :
            events[j].eventType = "afterpartyRage"
            => \E i \in EventsOfType(events, "afterpartyMeterUpdate") :
                 i < j /\ events[i].triggered

\* the events of the latest spin response that are the entry into a bought
\* bonus
BuyEntryEvents(response) ==
  { i \in EventsOfType(response.events, "enterFreeSpins") :
      /\ response.events[i].reason = "buy_feature"
      /\ response.events[i].bonusVariant = "vip_buy"
      /\ response.events[i].count = 10 }

\* `sess` is the exchange of a fresh BUY_FEATURE spin of a player in BASE
FreshBuyFromBase ==
  /\ sess # << >>
  /\ sess[1].op = "spin" /\ sess[1].error = "" /\ ~sess[1].replay
  /\ sess[1].payload.mode = "BUY_FEATURE"
  /\ sess[1].state_data = << >>

\* C13: a BUY_FEATURE spin for a player in BASE emits
\* enterFreeSpins{reason buy_feature, bonusVariant vip_buy, count 10} and
\* leaves the player in FREE_SPINS with spinsRemaining = 10 and heatLevel = 1,
\* in the response's nextState and in the restoreState of the next GET /init.
C13_BuyLeavesTen ==
  /\ FreshBuyFromBase =>
       /\ BuyEntryEvents(sess[1].response[1]) # {}
       /\ sess[1].response[1].nextState =
            [mode |-> "FREE_SPINS", spinsRemaining |-> 10, heatLevel |-> 1]
  /\ (/\ sess # << >> /\ sess[1].op = "init"
      /\ sess[1].response # << >>
      /\ BuyEntryEvents(sess[1].response[1]) # {})
     => sess[1].restoreState =
          << [mode |-> "FREE_SPINS", spinsRemaining |-> 10, heatLevel |-> 1] >>

\* C16: GET /init returns a non-null restoreState iff the player's stored
\* state exists with mode FREE_SPINS and free_spins_remaining > 0; when
\* present it has exactly the fields mode, spinsRemaining and heatLevel with
\* the stored values; for a fresh player and after a spin that ended in BASE
\* it is null.
C16_RestoreState ==
  (sess # << >> /\ sess[1].op = "init") =>
    LET state_data == sess[1].state_data
        restoreState == sess[1].restoreState
    IN /\ restoreState # << >>
          <=> /\ state_data # << >>
              /\ state_data[1].mode = "FREE_SPINS"
              /\ state_data[1].free_spins_remaining > 0
       /\ restoreState # << >> =>
            /\ DOMAIN restoreState[1] = {"mode", "spinsRemaining", "heatLevel"}
            /\ restoreState[1].mode = state_data[1].mode
            /\ restoreState[1].spinsRemaining = state_data[1].free_spins_remaining
            /\ restoreState[1].heatLevel = state_data[1].heat_level
       /\ sess[1].rounds = 0 => restoreState = << >>
       /\ (sess[1].response # << >> /\ sess[1].response[1].nextState.mode = "BASE")
          => restoreState = << >>

\* GET /init in a bonus with heat above 1 has returned the stored values
C16_Witness ==
  /\ sess # << >> /\ sess[1].op = "init"
  /\ sess[1].restoreState # << >>
  /\ sess[1].restoreState[1].heatLevel > 1
  /\ sess[1].restoreState[1].spinsRemaining = state[player_id][1].free_spins_remaining

\* the bonusEnd events of a response that close a bought bonus
VipBonusEnds(response) ==
  { i \in EventsOfType(response.events, "bonusEnd") :
      /\ response.events[i].bonusType = "freespins"
      /\ "bonusVariant" \in DOMAIN response.events[i]
      /\ response.events[i].bonusVariant = "vip_buy"
      /\ response.events[i].bonusMultiplierApplied = 11 }

\* the latest spin response is the final one of a bought bonus
BoughtBonusEnded ==
  /\ LatestResponse # << >>
  /\ Cardinality(EventsOfType(LatestResponse[1].events, "bonusEnd")) = 1
  /\ Cardinality(VipBonusEnds(LatestResponse[1])) = 1
  /\ LatestResponse[1].nextState.mode = "BASE"

\* C17: after a BUY_FEATURE entry (with enough rounds of the session left
\* to play the bonus), continuing with fresh spins always reaches a response
\* with exactly one bonusEnd, of bonusType freespins, bonusVariant vip_buy
\* and bonusMultiplierApplied 11, and nextState.mode BASE; every GET /init
\* after that response returns restoreState null.
C17_BoughtBonusEnds ==
  /\ (/\ FreshBuyFromBase
      /\ sess[1].rounds + sess[1].response[1].nextState.spinsRemaining <= MaxRounds)
     ~> (BoughtBonusEnded /\ sess[1].op = "spin")
  /\ [](sess # << >> /\ sess[1].op = "init" /\ BoughtBonusEnded
        => sess[1].restoreState = << >>)

\* GET /init after the final response of a bought bonus
C17_Witness ==
  /\ sess # << >> /\ sess[1].op = "init"
  /\ BoughtBonusEnded
  /\ sess[1].restoreState = << >>
  /\ state[player_id] = << >>

\* the telemetry events of name `event` that request r has emitted
Emitted(r, event) == { i \in 1..Len(req[r].tele) : req[r].tele[i].event = event }

\* C22: the telemetry of a /spin request follows its outcome: a fresh
\* evaluation emits exactly one spin_processed, whose round_id is the
\* response's roundId; a cache hit on either path emits nothing; a
\* ROUND_IN_PROGRESS rejection emits exactly one spin_rejected and no
\* spin_processed; validation errors and IDEMPOTENCY_CONFLICT emit nothing.
C22_TelemetryByOutcome ==
  \A r \in Requests :
    req[r].pc = "done" =>
      /\ (req[r].status = 200 /\ req[r].result # << >>)
         => /\ Len(req[r].tele) = 1
            /\ req[r].tele[1].event = "spin_processed"
            /\ req[r].tele[1].round_id = req[r].response[1].roundId
      /\ (req[r].status = 200 /\ req[r].result = << >>) => req[r].tele = << >>
      /\ req[r].error = "ROUND_IN_PROGRESS"
         => /\ Len(req[r].tele) = 1
            /\ req[r].tele[1].event = "spin_rejected"
            /\ req[r].tele[1].reason = "ROUND_IN_PROGRESS"
      /\ req[r].error \in {"INVALID_REQUEST", "INVALID_BET", "FEATURE_DISABLED",
                           "IDEMPOTENCY_CONFLICT"}
         => req[r].tele = << >>

\* a fresh spin has emitted spin_processed and a replay of it, answered on
\* the fast path, has emitted nothing
C22_Witness ==
  \E r1, r2 \in Requests :
    /\ req[r1].pc = "done" /\ req[r1].status = 200 /\ req[r1].result # << >>
    /\ Emitted(r1, "spin_processed") = {1}
    /\ req[r2].pc = "done" /\ req[r2].status = 200 /\ req[r2].token = 0
    /\ req[r2].response = req[r1].response
    /\ req[r2].tele = << >>

\* C30: idempotency records do not leak across players: a spin is never
\* answered with a response computed for another player, never rejected
\* with IDEMPOTENCY_CONFLICT because of another player's record, and never
\* overwrites another player's record, even when both players use the same
\* clientRequestId.
C30_NoCrossPlayer ==
  \A r \in Requests :
    /\ (req[r].pc = "done" /\ req[r].status = 200)
       => req[req[r].response[1].roundId].player_id = req[r].player_id
    /\ (req[r].pc = "done" /\ req[r].error = "IDEMPOTENCY_CONFLICT")
       => \E o \in Requests \ {r} :
            /\ req[o].player_id = req[r].player_id
            /\ req[o].body.clientRequestId = req[r].body.clientRequestId
            /\ Wrote(o, {"idem_setex"})
    /\ \A o \in Requests \ {r} :
         (/\ Wrote(r, {"idem_setex"}) /\ Wrote(o, {"idem_setex"})
          /\ req[o].body.clientRequestId = req[r].body.clientRequestId)
         => req[o].player_id = req[r].player_id

\* what a client and the store see of a handler's run: status, body and
\* store effects
Observed(out) ==
  [status |-> IF out.error = "" THEN 200 ELSE ERROR_HTTP_STATUS(out.error),
   error |-> out.error,
   body |-> IF "response" \in DOMAIN out THEN out.response ELSE out.restoreState,
   idem |-> out.idem, state |-> out.state, lock |-> out.lock]

\* the service with the sink given installed
WithSink(sink) == [telemetry_service EXCEPT !.sink = sink]

\* the number of events main.spin emits on the run `out`
Emits(out) == IF out.fresh \/ out.error = "ROUND_IN_PROGRESS" THEN 1 ELSE 0

\* C23: with a sink that raises on every emit, every /spin and /init
\* request has the same status, the same body and the same store effects
\* (idempotency record, state key, lock) as with a working sink; each
\* failed emit is counted once in the sink-error counter and nothing else
\* of the service changes.
C23_SinkFailureIsSilent ==
  /\ Observed(init(WithSink("failing"))) = Observed(init(WithSink("logging")))
  /\ init(WithSink("failing")).service =
       [WithSink("failing") EXCEPT !.sink_errors = @ + 1]
  /\ init(WithSink("logging")).service = WithSink("logging")
  /\ \A payload \in SessionPayloads, draw \in SessionDraws :
       LET failing == spin(WithSink("failing"), payload, draw)
           logging == spin(WithSink("logging"), payload, draw)
       IN /\ Observed(failing) = Observed(logging)
          /\ failing.replay = logging.replay
          /\ failing.service =
               [WithSink("failing") EXCEPT !.sink_errors = @ + Emits(logging)]
          /\ logging.service = WithSink("logging")

\* with the failing sink installed, a fresh spin was answered 200 and wrote
\* its record and a bonus state, and the failures were counted
C23_Witness ==
  /\ telemetry_service.sink = "failing"
  /\ telemetry_service.sink_errors >= 2
  /\ sess # << >>
  /\ sess[1].op = "spin" /\ sess[1].status = 200 /\ ~sess[1].replay
  /\ idem[clientRequestId] # << >>
  /\ state[player_id] # << >>
  /\ lock[player_id] = 0

\* the error code the contract gives an arrived request at validation, ""
\* when it passes
Rejection(r) ==
  IF req[r].player_id = "" THEN "INVALID_REQUEST"
  ELSE IF req[r].body.betAmount \notin allowed_bets THEN "INVALID_BET"
  ELSE IF \/ req[r].body.mode = "BUY_FEATURE" /\ ~settings.enable_buy_feature
          \/ req[r].body.hypeMode /\ ~settings.enable_hype_mode_ante_bet
    THEN "FEATURE_DISABLED"
  ELSE ""

\* C21: a spin that fails validation (no player id -> INVALID_REQUEST 400,
\* bet not allowed -> INVALID_BET 400, buy feature or hype mode requested
\* while disabled -> FEATURE_DISABLED 409) is rejected before any store
\* access: no idempotency read, no lock, no idempotency or state write, no
\* telemetry event.
C21_ValidationFirst ==
  \A r \in Requests :
    (req[r].pc # "idle" /\ Rejection(r) # "") =>
      /\ req[r].pc = "done"
      /\ req[r].error = Rejection(r)
      /\ req[r].status = (IF Rejection(r) = "FEATURE_DISABLED" THEN 409 ELSE 400)
      /\ log[r] = << >>
      /\ req[r].token = 0
      /\ req[r].state_data = << >> /\ req[r].result = << >>
      /\ req[r].response = << >>
      /\ req[r].tele = << >>

\* both kinds of feature rejection and a bet rejection have happened and
\* the store is as it was
C21_Witness ==
  /\ \E r1, r2 \in Requests :
       /\ req[r1].error = "FEATURE_DISABLED" /\ req[r1].body.mode = "BUY_FEATURE"
       /\ req[r2].error = "FEATURE_DISABLED" /\ req[r2].body.hypeMode
       /\ log[r1] = << >> /\ log[r2] = << >>
  /\ \A c \in ClientRequestIds : idem[c] = << >>
  /\ \A p \in Players : state[p] = << >> /\ lock[p] = 0

\* C28: GET /init is read-only: it creates, modifies and deletes no state,
\* idempotency or lock key, it does not take the player lock and so is
\* answered 200 also while a spin of the player holds the lock, and the
\* outcome of every spin that may follow is the same after it as before.
C28_InitReadOnly ==
  [][GetInit =>
       /\ idem' = idem /\ state' = state /\ lock' = lock /\ lockTtl' = lockTtl
       /\ sess'[1].op = "init" /\ sess'[1].status = 200
       /\ sess'[1].restoreState = restore_state(state[player_id])
       /\ \A payload \in SessionPayloads, draw \in SessionDraws :
            Observed(spin(telemetry_service, payload, draw))' =
              Observed(spin(telemetry_service, payload, draw))]_vars

\* /init was answered 200 with a restoreState in the middle of a bonus,
\* while another request of the player held the lock
C28_Witness ==
  /\ sess # << >>
  /\ sess[1].op = "init" /\ sess[1].status = 200
  /\ sess[1].restoreState # << >>
  /\ sess[1].rounds >= 2
  /\ lock[player_id] = OtherToken

\* C29: the persisted player state carries all data-model fields: the
\* state the engine is given for a player's next fresh spin (the one built
\* from the state key) equals, in every field, the next_state the engine
\* returned for that player's previous fresh spin.
C29_StateCarried ==
  (sess # << >> /\ sess[1].rounds >= 1) => LoadGameState(state[player_id]) = gs

\* request r will not run again: answered with 200 or with an error that is
\* not recoverable, or lost with its worker
Settled(r) ==
  \/ req[r].pc = "crashed"
  \/ req[r].pc = "done" /\ ~(req[r].error # "" /\ req[r].recoverable)

\* a transient failure has hit request r
Faulted(r) ==
  \/ req[r].pc = "crashed"
  \/ req[r].pc = "done" /\ req[r].error = "INTERNAL_ERROR"

\* C24: a spin rejected with ROUND_IN_PROGRESS stores nothing (no
\* idempotency record, no state), so a retry with the same clientRequestId
\* and payload is never answered IDEMPOTENCY_CONFLICT: a retry answered 200
\* carries either the record stored under its clientRequestId or its own
\* fresh evaluation; and a retry sent once the lock is free (the holder has
\* finished or the TTL has expired) gets 200 unless a new transient
\* failure hits it.
C24_RetryAfterTransient ==
  /\ [][\A r \in Requests :
          (req[r].pc = "acquire" /\ req'[r].error = "ROUND_IN_PROGRESS")
            => (idem' = idem /\ state' = state /\ lock' = lock)]_vars
  /\ [](\A r \in Requests :
          (req[r].retry /\ req[r].pc = "done") =>
            /\ req[r].error # "IDEMPOTENCY_CONFLICT"
            /\ req[r].status = 200 =>
                 \/ req[r].result = << >> /\ req[r].response[1].roundId \in Requests
                 \/ req[r].result # << >> /\ req[r].response[1].roundId = r)
  /\ \A r \in Requests :
       (/\ req[r].retry /\ req[r].pc = "fast"
        /\ lock[req[r].player_id] = 0
        /\ \A o \in Requests \ {r} : Settled(o))
         ~> (Faulted(r) \/ (req[r].pc = "done" /\ req[r].status = 200))

\* C25: with the hype flag set the SCATTER probability of every grid cell
\* is multiplied by hypeModeBonusChanceMultiplier: a cell is SCATTER
\* exactly when its draw is below the base chance without hype and below
\* the multiplied chance with hype, so that a draw which gives SCATTER
\* without hype gives it with hype too and some draws give it only with
\* hype.
C25_HypeScatter ==
  (last # << >> /\ last[1].cells > 0) =>
    (last[1].symbol = "SCATTER" <=> last[1].r < base_scatter_chance(last[1].hype_mode))

\* C26: in every audit simulation run, in base, hype and buy mode (where a
\* round is one full bonus session and its win the sum over the session's
\* spins), the recorded maximum round win multiple never exceeds
\* maxWinTotalX, so the final cap assertion of the simulator passes.
C26_AuditCap == last[1].max_win_x_observed <= MAX_WIN_TOTAL_X * 100

SpinResults(st) ==
  { EngineSpin(st, input.bet, input.mode, input.hype_mode, draw) :
      input \in EngineInputs, draw \in AuditDraws }

\* a spin that starts in FREE_SPINS with n >= 1 spins left returns n - 1,
\* starts no bonus, and ends the bonus exactly when n = 1
FreeSpinSpent(st, result) ==
  LET n == st.free_spins_remaining
      bonusEnds == EventsOfType(result.events, "bonusEnd")
  IN /\ result.next_state.free_spins_remaining = n - 1
     /\ EventsOfType(result.events, "enterFreeSpins") = {}
     /\ Cardinality(bonusEnds) = (IF n = 1 THEN 1 ELSE 0)
     /\ n = 1 => /\ result.next_state.mode = "BASE"
                 /\ result.next_state.heat_level = 0
                 /\ ~result.next_state.bonus_is_bought
     /\ n > 1 => result.next_state.mode = "FREE_SPINS"

\* C31: every engine spin that starts in FREE_SPINS with
\* free_spins_remaining = n >= 1 returns n - 1 and adds no free spins;
\* exactly one bonusEnd is emitted iff n = 1, and then next_state is BASE with
\* heat_level 0 and bonus_is_bought false; no bonusEnd while n > 1.  A bonus
\* of the simulation with n spins left is over after exactly n further
\* spins, and the loop 'spin while mode is FREE_SPINS' of a buy round
\* always terminates.
C31_BonusRunsDown ==
  /\ [](gs.mode = "FREE_SPINS" /\ gs.free_spins_remaining >= 1
        => \A result \in SpinResults(gs) : FreeSpinSpent(gs, result))
  /\ [][last[1].in_session
        => /\ gs.mode = "FREE_SPINS" /\ gs.free_spins_remaining >= 1
           /\ gs'.free_spins_remaining = gs.free_spins_remaining - 1
           /\ last'[1].in_session <=> gs.free_spins_remaining > 1
           /\ gs'.mode = "BASE" <=> gs.free_spins_remaining = 1]_vars
  /\ last[1].in_session ~> (~last[1].in_session /\ gs.mode = "BASE")

\* a buy round of the simulation is over: the loop has played the bought
\* bonus down to its last free spin and the round has been counted
C31_Witness ==
  /\ last[1].mode = "buy"
  /\ last[1].rounds = 1 /\ ~last[1].in_session
  /\ gs.mode = "BASE" /\ gs.free_spins_remaining = 0

\* the free_spins_remaining stored for player p (0 when no state is stored)
StoredFreeSpins(p) ==
  IF state[p] = << >> THEN 0 ELSE state[p][1].free_spins_remaining

\* request r is a fresh spin that has written the player's state
FreshSpinSaved(r) == Wrote(r, StateWrites)

\* request r is a fresh spin that continued a bonus
FreshContinuation(r) ==
  FreshSpinSaved(r) /\ is_bonus_continuation(req[r].state_data)

\* C32: with no crash and no lock expiring while held, every fresh 200 spin
\* processed while the stored state is FREE_SPINS lowers the stored
\* free_spins_remaining by exactly one, nothing else changes it during the
\* bonus, and replays, conflicts and ROUND_IN_PROGRESS rejections lower it by
\* zero; no two fresh spins spend the same stored free spin, so a bonus
\* stored with n free spins takes n fresh 200 spins.
C32_OneFreeSpinPerFreshSpin ==
  /\ [][\A p \in Players :
          /\ (is_bonus_continuation(state[p]) /\ state'[p] # state[p])
             => /\ StoredFreeSpins(p)' = StoredFreeSpins(p) - 1
                /\ \E r \in Requests : /\ req[r].player_id = p
                                       /\ req[r].pc = "save"
                                       /\ req'[r].pc = "release"
                                       /\ req'[r].error = ""
          /\ \A r \in Requests :
               (/\ req[r].player_id = p /\ FreshContinuation(r)'
                /\ ~FreshContinuation(r))
               => /\ is_bonus_continuation(state[p])
                  /\ StoredFreeSpins(p)' = StoredFreeSpins(p) - 1
          /\ \A r \in Requests :
               (/\ req[r].player_id = p /\ req'[r].pc = "done" /\ req[r].pc # "done"
                /\ ~FreshSpinSaved(r))
               => state'[p] = state[p]]_vars
  /\ [](\A r \in Requests :
          /\ (req[r].pc = "done" /\ FreshSpinSaved(r)) => req[r].status = 200
          /\ (req[r].pc = "done" /\ req[r].status = 200 /\ ~CacheHit(r))
             => FreshSpinSaved(r))
  /\ [](\A r1, r2 \in Requests :
          (/\ r1 # r2 /\ req[r1].player_id = req[r2].player_id
           /\ FreshContinuation(r1) /\ FreshContinuation(r2))
          => req[r1].state_data[1].free_spins_remaining
               # req[r2].state_data[1].free_spins_remaining)

\* a bonus stored with two free spins has been played by two fresh 200
\* spins of the player, and no state is stored any more
C32_Witness ==
  /\ \A r \in Requests : /\ req[r].pc = "done" /\ req[r].status = 200
                         /\ req[r].player_id = "p1" /\ FreshContinuation(r)
  /\ \E r \in Requests : req[r].state_data[1].free_spins_remaining = 2
  /\ state["p1"] = << >>

\* the last engine call was a BUY_FEATURE spin on a state in FREE_SPINS
BuyInBonus ==
  /\ last # << >>
  /\ last[1].mode = "BUY_FEATURE"
  /\ last[1].state.mode = "FREE_SPINS"

\* what C33 says of such a spin apart from bonus_is_bought: it is the
\* NORMAL spin of the same inputs, it spends one free spin, emits no
\* enterFreeSpins, and a standard bonus is paid without the buy multiplier
OrdinaryContinuation(l) ==
  /\ l.result = EngineSpin(l.state, l.bet, "NORMAL", l.hype_mode, l.draw)
  /\ l.result.next_state.free_spins_remaining = l.state.free_spins_remaining - 1
  /\ EventsOfType(l.result.events, "enterFreeSpins") = {}
  /\ ~l.state.bonus_is_bought
     => /\ ~l.result.next_state.bonus_is_bought
        /\ l.result.raw_win_x =
             l.draw.base_win_x
               * (IF PlayedInRage(l) THEN AFTERPARTY_RAGE_MULTIPLIER ELSE 1)

\* C33 as stated: a BUY_FEATURE spin for a player already in FREE_SPINS is
\* an ordinary continuation (free_spins_remaining decreases by one, no
\* enterFreeSpins, no reset to 10) and bonus_is_bought keeps its value.
C33_BuyInBonusKeepsFlag ==
  BuyInBonus =>
    /\ OrdinaryContinuation(last[1])
    /\ last[1].result.next_state.bonus_is_bought = last[1].state.bonus_is_bought

\* C33, amended: a BUY_FEATURE spin for a player already in FREE_SPINS is
\* an ordinary continuation (free_spins_remaining decreases by one, no
\* enterFreeSpins, no reset to 10); bonus_is_bought keeps its value while
\* the bonus goes on and is false when the spin ends the bonus, so a standard
\* bonus never gets the buy multiplier.
C33_BuyInBonus ==
  BuyInBonus =>
    /\ OrdinaryContinuation(last[1])
    /\ last[1].result.next_state.bonus_is_bought =
         (/\ last[1].state.bonus_is_bought
          /\ last[1].result.next_state.mode = "FREE_SPINS")

\* a winning BUY_FEATURE spin inside a standard bonus that goes on
C33_Witness ==
  /\ BuyInBonus
  /\ ~last[1].state.bonus_is_bought
  /\ last[1].result.total_win > 0
  /\ last[1].result.next_state.mode = "FREE_SPINS"
  /\ ~last[1].result.next_state.bonus_is_bought

\* request r holds the lock of its player: the key carries its token and
\* the release has not run
HoldsLock(r) ==
  /\ InLockScope(r)
  /\ lock[req[r].player_id] = req[r].token

\* C34: for a fresh spin, spin_processed is emitted only after the player's
\* lock has been released: no request has emitted it while it still holds the
\* lock.
C34_EmitAfterRelease ==
  \A r \in Requests : Emitted(r, "spin_processed") # {} => ~HoldsLock(r)

\* the step is the state write (and the spin_processed emission) of the
\* fresh spin r
SaveStep(r) ==
  /\ req[r].pc = "save" /\ req'[r].pc = "release"
  /\ req'[r].error = ""

\* the number the next fresh spin of player p is inside the current bonus:
\* one more than the stored count during a bonus, 0 outside
NextInBonus(p) ==
  IF is_bonus_continuation(state[p])
    THEN state[p][1].bonus_continuation_count + 1 ELSE 0

\* C35: bonus_continuation_count counts the distinct fresh spins processed
\* inside the current bonus: the spin that enters the bonus persists 0, the
\* k-th fresh continuation spin reports and persists k, is_bonus_continuation
\* is reported exactly when the stored state is FREE_SPINS with
\* free_spins_remaining > 0, a replay (and every step other than the state
\* write of a fresh spin) leaves the stored count unchanged, and the count is
\* discarded with the state when the bonus ends.
C35_ContinuationCount ==
  [][/\ \A r \in Requests :
          SaveStep(r) =>
            LET p == req[r].player_id
                reported == req'[r].tele[1]
                next_state == req[r].result[1].next_state
            IN /\ reported.bonus_continuation_count = NextInBonus(p)
               /\ reported.is_bonus_continuation = is_bonus_continuation(state[p])
               /\ state'[p] # << >>
                  => state'[p][1].bonus_continuation_count = NextInBonus(p)
               /\ state'[p] = << >>
                  <=> ~(/\ next_state.mode = "FREE_SPINS"
                        /\ next_state.free_spins_remaining > 0)
     /\ state' # state => \E r \in Requests : SaveStep(r)]_vars

\* the last spin of a carried session: the call record, its input state,
\* its result's next_state and events
RageStarts(l) == EventStarts(l.result.events, "afterpartyRage")
RageEnds(l) == EventEnds(l.result.events, "afterpartyRage")

\* what C36 says of one spin: a spin entered with rage active applies the
\* rage multiplier and counts rage_spins_left down; the one that reaches 0
\* clears rage_active, zeroes the meter, sets the cooldown and emits one
\* eventEnd; no other spin emits an eventEnd; a spin that emits the
\* eventStart leaves rage active with AFTERPARTY_RAGE_SPINS spins left
RageSpin(l) ==
  LET st == l.state
      ns == l.result.next_state
  IN /\ st.rage_active
        => /\ l.result.raw_win_x =
                l.draw.base_win_x * AFTERPARTY_RAGE_MULTIPLIER
                  * (IF PlayedInBoughtBonus(l) THEN FREE_SPINS_WIN_MULTIPLIER ELSE 1)
           /\ ns.rage_spins_left = st.rage_spins_left - 1
           /\ IF st.rage_spins_left = 1
                THEN /\ ~ns.rage_active
                     /\ ns.afterparty_meter = 0
                     /\ ns.rage_cooldown_remaining = AFTERPARTY_RAGE_COOLDOWN_SPINS
                     /\ Cardinality(RageEnds(l)) = 1
                ELSE ns.rage_active /\ RageEnds(l) = {}
     /\ ~st.rage_active => RageEnds(l) = {}
     /\ RageStarts(l) # {}
        => /\ Cardinality(RageStarts(l)) = 1
           /\ ~st.rage_active
           /\ ns.rage_active /\ ns.rage_spins_left = AFTERPARTY_RAGE_SPINS

\* C36: once triggered, rage is active for exactly AFTERPARTY_RAGE_SPINS
\* consecutive following spins: each applies AFTERPARTY_RAGE_MULTIPLIER to
\* its win, and the last clears rage_active, zeroes the meter, sets
\* rage_cooldown_remaining to AFTERPARTY_RAGE_COOLDOWN_SPINS and emits
\* exactly one eventEnd for afterpartyRage; every rage eventStart is followed
\* (when the caller plays enough further spins) by exactly one matching
\* eventEnd before any later rage eventStart.
C36_RageRuns ==
  /\ [](last # << >> => RageSpin(last[1]))
  /\ [](/\ sess[1].rage_starts - sess[1].rage_ends = (IF gs.rage_active THEN 1 ELSE 0)
        /\ gs.rage_active
           => sess[1].since_rage_start = AFTERPARTY_RAGE_SPINS - gs.rage_spins_left
        /\ (last # << >> /\ RageEnds(last[1]) # {})
           => sess[1].since_rage_start = AFTERPARTY_RAGE_SPINS)
  /\ (/\ last # << >> /\ RageStarts(last[1]) # {}
      /\ SpinsPlayed + AFTERPARTY_RAGE_SPINS <= MaxCarriedSpins)
     ~> (last # << >> /\ RageEnds(last[1]) # {})

\* a rage whose eventStart and eventEnd the session has both seen: the
\* third spin after the trigger, a winning one, has ended it
C36_Witness ==
  /\ last # << >> /\ last[1].n = 1 + AFTERPARTY_RAGE_SPINS
  /\ sess[1].rage_starts = 1 /\ sess[1].rage_ends = 1
  /\ sess[1].since_rage_start = AFTERPARTY_RAGE_SPINS
  /\ Cardinality(RageEnds(last[1])) = 1
  /\ last[1].result.total_win > 0
  /\ ~gs.rage_active /\ gs.rage_cooldown_remaining = AFTERPARTY_RAGE_COOLDOWN_SPINS

\* the afterparty meter a spin reaches before the trigger test: the input
\* level plus the increments its draw earns, clamped
MeterReached(l) ==
  Min(l.state.afterparty_meter
        + (IF l.draw.base_win_x > 0 THEN AFTERPARTY_METER_INC_ON_ANY_WIN ELSE 0)
        + (IF l.draw.wild_count > 0 THEN AFTERPARTY_METER_INC_ON_WILD_PRESENT ELSE 0)
        + (IF l.draw.scatter_count = 2 THEN AFTERPARTY_METER_INC_ON_TWO_SCATTERS ELSE 0),
      AFTERPARTY_METER_MAX)

\* what C37 says of one spin
RageTrigger(l) ==
  LET st == l.state
      ns == l.result.next_state
  IN /\ RageStarts(l) # {}
        => /\ st.mode = "BASE"
           /\ ~st.rage_active
           /\ st.rage_cooldown_remaining = 0
           /\ MeterReached(l) = AFTERPARTY_METER_MAX
     /\ (st.rage_active \/ st.rage_cooldown_remaining > 0) => RageStarts(l) = {}
     /\ st.rage_cooldown_remaining > 0
        => ns.rage_cooldown_remaining = st.rage_cooldown_remaining - 1
     /\ ns.rage_cooldown_remaining >= 0

\* C37: rage is triggered only by a BASE spin that enters with rage
\* inactive and cooldown 0 and whose meter reaches AFTERPARTY_METER_MAX,
\* never while rage is active or rage_cooldown_remaining > 0; between a rage
\* eventEnd and the next rage eventStart there are at least
\* AFTERPARTY_RAGE_COOLDOWN_SPINS spins; the cooldown decreases by exactly
\* one per spin while positive and never goes below 0.
C37_RageCooldown ==
  /\ last # << >> => RageTrigger(last[1])
  /\ (last # << >> /\ RageStarts(last[1]) # {} /\ sess[1].since_rage_end >= 0)
     => sess[1].since_rage_end - 1 >= AFTERPARTY_RAGE_COOLDOWN_SPINS
  /\ gs.rage_cooldown_remaining \in 0..AFTERPARTY_RAGE_COOLDOWN_SPINS

\* the second rage of a session starts on the sixteenth spin after the end
\* of the first: the fifteen spins of the cooldown lie between them
C37_Witness ==
  /\ last # << >> /\ RageStarts(last[1]) # {}
  /\ sess[1].rage_starts = 2 /\ sess[1].rage_ends = 1
  /\ sess[1].since_rage_end = AFTERPARTY_RAGE_COOLDOWN_SPINS + 1
  /\ last[1].state.rage_cooldown_remaining = 0
  /\ gs.rage_active

\* C38: over any sequence of spins with carried state, afterparty_meter
\* never decreases across a BASE spin in which rage is not active (unless the
\* spin triggers rage), it is 0 after the spin that triggers rage, and it is
\* 0 after the spin that emits bonusEnd.
C38_MeterMonotone ==
  last # << >> =>
    LET st == last[1].state
        ns == last[1].result.next_state
        events == last[1].result.events
    IN /\ (st.mode = "BASE" /\ ~st.rage_active /\ RageStarts(last[1]) = {})
          => ns.afterparty_meter >= st.afterparty_meter
       /\ RageStarts(last[1]) # {} => ns.afterparty_meter = 0
       /\ EventsOfType(events, "bonusEnd") # {} => ns.afterparty_meter = 0

\* the boost and explosive eventStart events of the latest result
BoostStarts(l) == EventStarts(l.result.events, "boost")
ExplosiveStarts(l) == EventStarts(l.result.events, "explosive")

\* C39: over any sequence of spins with carried state the caller sees at
\* most 8 boost starts, at most 10 explosive starts and at most 18 of both
\* together, in the whole sequence and so in every window of 100 spins; the
\* counters of the state equal what the caller has seen (they are not cleared
\* when spins_in_window wraps), and a spin played once a cap is reached starts
\* no event of that kind.
C39_EventCaps ==
  LET h == sess[1]
  IN /\ h.boost_starts <= BOOST_MAX_RATE_PER_100_SPINS
     /\ h.explosive_starts <= EXPLOSIVE_MAX_RATE_PER_100_SPINS
     /\ h.boost_starts + h.explosive_starts <= EVENT_MAX_RATE_PER_100_SPINS
     /\ gs.boost_in_window = h.boost_starts
     /\ gs.explosive_in_window = h.explosive_starts
     /\ gs.spins_in_window = h.spins % 100
     /\ last # << >> =>
          LET boosts == Cardinality(BoostStarts(last[1]))
              explosives == Cardinality(ExplosiveStarts(last[1]))
              boostsBefore == h.boost_starts - boosts
              explosivesBefore == h.explosive_starts - explosives
          IN /\ boostsBefore >= BOOST_MAX_RATE_PER_100_SPINS => boosts = 0
             /\ explosivesBefore >= EXPLOSIVE_MAX_RATE_PER_100_SPINS
                  => explosives = 0
             /\ boostsBefore + explosivesBefore >= EVENT_MAX_RATE_PER_100_SPINS
                  => boosts + explosives = 0

\* more than 100 spins have been played, spins_in_window has wrapped, all
\* three caps are reached, and a BASE spin whose win reaches the explosive
\* threshold has just started nothing
C39_Witness ==
  /\ last # << >>
  /\ sess[1].spins > 100
  /\ gs.spins_in_window < MaxCarriedSpins
  /\ sess[1].boost_starts = BOOST_MAX_RATE_PER_100_SPINS
  /\ sess[1].explosive_starts = EXPLOSIVE_MAX_RATE_PER_100_SPINS
  /\ gs.events_in_window = EVENT_MAX_RATE_PER_100_SPINS
  /\ last[1].state.mode = "BASE"
  /\ last[1].mode = "NORMAL"
  /\ last[1].result.total_win_x >= EXPLOSIVE_TRIGGER_WIN_X * 100
  /\ ExplosiveStarts(last[1]) = {}

\* C40: after any sequence of spins from the default state,
\* events_in_window = boost_in_window + explosive_in_window, no spin starts
\* both a boost and an explosive event, a boost or explosive event starts
\* only on a spin run in BASE (the state passed in is BASE and the spin is not
\* a BUY_FEATURE entry), each start adds one to its counter and to
\* events_in_window, and at most one of deadspins_streak and smallwins_streak
\* is positive.
C40_CountersInLockstep ==
  /\ gs.events_in_window = gs.boost_in_window + gs.explosive_in_window
  /\ ~(gs.deadspins_streak > 0 /\ gs.smallwins_streak > 0)
  /\ gs.deadspins_streak >= 0 /\ gs.smallwins_streak >= 0
  /\ last # << >> =>
       LET st == last[1].state
           ns == last[1].result.next_state
           boosts == Cardinality(BoostStarts(last[1]))
           explosives == Cardinality(ExplosiveStarts(last[1]))
       IN /\ boosts + explosives <= 1
          /\ boosts + explosives > 0
               => st.mode = "BASE" /\ last[1].mode # "BUY_FEATURE"
          /\ ns.boost_in_window = st.boost_in_window + boosts
          /\ ns.explosive_in_window = st.explosive_in_window + explosives
          /\ ns.events_in_window = st.events_in_window + boosts + explosives

\* both kinds of event have started in the session, the latest spin started
\* a boost on the fourth small win in a row, and the streak was cleared
C40_Witness ==
  /\ last # << >>
  /\ gs.boost_in_window > 0 /\ gs.explosive_in_window > 0
  /\ BoostStarts(last[1]) # {}
  /\ last[1].state.smallwins_streak = BOOST_TRIGGER_SMALLWINS - 1
  /\ gs.smallwins_streak = 0

====
